---------------------------- MODULE Spec2Model ----------------------------
(***************************************************************************)
(* Model of the structural pipeline of chanlun_local/engine.py:            *)
(* SimpleICL (fractals, strokes "bi", segments "xd", pivots "zs",          *)
(* divergence flags "bcs", turning-point markers "mmds") and the           *)
(* ChanlunEngine.analyze_klines wrapper that validates its input.          *)
(*                                                                         *)
(* Representation.                                                         *)
(*  - A DataFrame is [columns, rows]; a row is [date, high, low, macd].    *)
(*    Prices and times are integers.  The close column is represented by   *)
(*    the MACD histogram pandas derives from it (macd): hist[0] = 0 and    *)
(*    every later hist[t] is an affine, strictly increasing function of    *)
(*    close[t], so the histograms with hist[0] = 0 are exactly the images  *)
(*    of the close sequences.  Where a close column is given (the klines   *)
(*    of test_chanlun_engine) macd is computed from it in fixed point.     *)
(*    open and volume are never read.                                      *)
(*  - Python indices are kept 0-based in every field (index, start_index,  *)
(*    start_bi_index, ...); TLA+ sequences are 1-based, so element i of a  *)
(*    Python list l is l[i + 1].                                           *)
(*  - A reference to a pivot object (SimpleBC.zs, SimpleMMD.zs) is the     *)
(*    0-based position of the pivot in its list, wrapped in a sequence:    *)
(*    << >> is None, <<k>> is the k-th pivot.                              *)
(*  - A float strength is an integer; s < p * 0.8 is 10 * s < 8 * p.       *)
(***************************************************************************)
EXTENDS Integers, Sequences, FiniteSets, TLC

VARIABLES
    engine,   \* ChanlunEngine._config: the EngineConfig
    icl,      \* the SimpleICL object: thresholds and result lists
    call,     \* the pending call: [api, df]
    pc,       \* "ready" before the call, "returned" / "raised" after it
    error,    \* the exception the call raised, "" if none
    stages    \* the pipeline stages the call entered, in order

vars == <<engine, icl, call, pc, error, stages>>

----------------------------------------------------------------------------
(* Python built-ins used by the code *)

\* min(list) of a non-empty list of integers
Min(s) == CHOOSE x \in {s[k] : k \in 1..Len(s)} : \A y \in {s[k] : k \in 1..Len(s)} : x <= y

\* max(list) of a non-empty list of integers
Max(s) == CHOOSE x \in {s[k] : k \in 1..Len(s)} : \A y \in {s[k] : k \in 1..Len(s)} : x >= y

\* min(a, b)
Min2(a, b) == IF a <= b THEN a ELSE b

\* max(a, b)
Max2(a, b) == IF a >= b THEN a ELSE b

\* a slice bound as Python clamps it: negative counts from the end
PyBound(n, a) == IF a < 0 THEN Max2(n + a, 0) ELSE Min2(a, n)

\* list[a:b]
PySlice(s, a, b) ==
    LET lo == PyBound(Len(s), a)
        hi == PyBound(Len(s), b)
    IN  IF lo < hi THEN SubSeq(s, lo + 1, hi) ELSE << >>

\* list[j], j possibly negative (the callers keep -len <= j < len)
PyItem(s, j) == IF j < 0 THEN s[Len(s) + j + 1] ELSE s[j + 1]

\* config.get(key, default); a config dict is a function on its keys
ConfigGet(config, key, default) ==
    IF key \in DOMAIN config THEN config[key] ELSE default

\* an assignment: the value of a statement, computed once and held under a
\* name as the one element of a set, is what the statements after it read
Sole(S) == CHOOSE value \in S : TRUE

----------------------------------------------------------------------------
(* The structure objects *)

\* SimpleBi with the bar range ending one bar after the end fractal
SimpleBi_EndLate(index, direction, start_time, end_time, start_price, end_price, start_index, end_index) ==
    [index |-> index, type |-> direction,
     start_index |-> start_index, end_index |-> end_index + 1,
     start_time |-> start_time, end_time |-> end_time,
     start_price |-> start_price, end_price |-> end_price,
     high |-> IF direction = "up" THEN end_price ELSE start_price,
     low  |-> IF direction = "up" THEN start_price ELSE end_price,
     strength |-> 0, mmds |-> << >>, bcs |-> << >>]

\* SimpleBi numbered by the bar of its start fractal
SimpleBi_IndexIsBar(index, direction, start_time, end_time, start_price, end_price, start_index, end_index) ==
    [index |-> start_index, type |-> direction,
     start_index |-> start_index, end_index |-> end_index,
     start_time |-> start_time, end_time |-> end_time,
     start_price |-> start_price, end_price |-> end_price,
     high |-> IF direction = "up" THEN end_price ELSE start_price,
     low  |-> IF direction = "up" THEN start_price ELSE end_price,
     strength |-> 0, mmds |-> << >>, bcs |-> << >>]

\* SimpleBi.__init__
SimpleBi(index, direction, start_time, end_time, start_price, end_price, start_index, end_index) ==
    [index |-> index, type |-> direction,
     start_index |-> start_index, end_index |-> end_index,
     start_time |-> start_time, end_time |-> end_time,
     start_price |-> start_price, end_price |-> end_price,
     high |-> IF direction = "up" THEN end_price ELSE start_price,
     low  |-> IF direction = "up" THEN start_price ELSE end_price,
     strength |-> 0, mmds |-> << >>, bcs |-> << >>]

\* SimpleXD.__init__
SimpleXD(index, direction, start_time, end_time, start_price, end_price, start_bi_index, end_bi_index) ==
    [index |-> index, type |-> direction,
     start_bi_index |-> start_bi_index, end_bi_index |-> end_bi_index,
     start_time |-> start_time, end_time |-> end_time,
     start_price |-> start_price, end_price |-> end_price,
     high |-> IF direction = "up" THEN end_price ELSE start_price,
     low  |-> IF direction = "up" THEN start_price ELSE end_price,
     strength |-> 0, mmds |-> << >>, bcs |-> << >>]

\* SimpleZS.__init__ followed by the manual zg/zd/gg/dd assignment
SimpleZS(index, zs_type, direction, start_time, end_time, zg, zd, gg, dd) ==
    [index |-> index, zs_type |-> zs_type, type |-> direction,
     start_time |-> start_time, end_time |-> end_time,
     high |-> zg, low |-> zd, zg |-> zg, zd |-> zd, gg |-> gg, dd |-> dd]

\* SimpleBC.__init__
SimpleBC(bc_type, is_bc, zs) == [type |-> bc_type, bc |-> is_bc, zs |-> zs]

\* SimpleMMD.__init__
SimpleMMD(name, zs, msg) == [name |-> name, zs |-> zs, msg |-> msg]

----------------------------------------------------------------------------
(* 1. Fractals: SimpleICL._calculate_fx *)

\* the peak test without its test against the bar after
IsDing_NoNextTest(rows, i) ==
    LET prev == rows[i]  curr == rows[i + 1]
    IN  curr.high > prev.high /\ curr.low >= prev.low

\* the peak test without its test of the low
IsDing_NoLowTest(rows, i) ==
    LET prev == rows[i]  curr == rows[i + 1]  next == rows[i + 2]
    IN  curr.high > prev.high /\ curr.high > next.high

\* the peak test on bar i (0-based), 1 <= i <= len - 2
IsDing(rows, i) ==
    LET prev == rows[i]  curr == rows[i + 1]  next == rows[i + 2]
    IN  curr.high > prev.high /\ curr.high > next.high /\ curr.low >= prev.low

\* the trough test on bar i (reached only when the peak test fails)
IsDi(rows, i) ==
    LET prev == rows[i]  curr == rows[i + 1]  next == rows[i + 2]
    IN  curr.low < prev.low /\ curr.low < next.low /\ curr.high <= prev.high

RECURSIVE FxLoop(_, _)
\* the for loop over range(1, len(df) - 1), from bar i on
FxLoop(rows, i) ==
    IF i >= Len(rows) - 1 THEN << >>
    ELSE (IF IsDing(rows, i)
            THEN <<[type |-> "ding", index |-> i, time |-> rows[i + 1].date,
                    price |-> rows[i + 1].high]>>
          ELSE IF IsDi(rows, i)
            THEN <<[type |-> "di", index |-> i, time |-> rows[i + 1].date,
                    price |-> rows[i + 1].low]>>
          ELSE << >>) \o FxLoop(rows, i + 1)

_calculate_fx(rows) == FxLoop(rows, 1)

----------------------------------------------------------------------------
(* 2. Strokes: SimpleICL._calculate_bi *)

\* the direction of the pair (fx_start, fx_end); "skip" for two of a kind
BiDirection(fx_start, fx_end) ==
    IF fx_start.type = "di" /\ fx_end.type = "ding" THEN "up"
    ELSE IF fx_start.type = "ding" /\ fx_end.type = "di" THEN "down"
    ELSE "skip"

\* BiSkip without the test of the bar count
BiSkip_NoLengthTest(fx_start, fx_end, bis, bi_min_kline) ==
    \/ BiDirection(fx_start, fx_end) = "skip"
    \/ (bis # << >> /\ bis[Len(bis)].type = BiDirection(fx_start, fx_end))

\* BiSkip without the test against the last stroke's direction
BiSkip_NoAlternation(fx_start, fx_end, bis, bi_min_kline) ==
    \/ fx_end.index - fx_start.index < bi_min_kline
    \/ BiDirection(fx_start, fx_end) = "skip"

\* the three `continue` tests of the loop body
BiSkip(fx_start, fx_end, bis, bi_min_kline) ==
    \/ fx_end.index - fx_start.index < bi_min_kline
    \/ BiDirection(fx_start, fx_end) = "skip"
    \/ (bis # << >> /\ bis[Len(bis)].type = BiDirection(fx_start, fx_end))

RECURSIVE BiLoop(_, _, _, _, _)
\* the for loop over range(len(fx_list) - 1), from pair i (0-based) on
BiLoop(fx_list, bi_min_kline, i, bis, bi_index) ==
    IF i >= Len(fx_list) - 1 THEN bis
    ELSE LET fx_start == fx_list[i + 1]
             fx_end == fx_list[i + 2]
         IN  IF BiSkip(fx_start, fx_end, bis, bi_min_kline)
               THEN BiLoop(fx_list, bi_min_kline, i + 1, bis, bi_index)
               ELSE BiLoop(fx_list, bi_min_kline, i + 1,
                      Append(bis, SimpleBi(bi_index,
                                           BiDirection(fx_start, fx_end),
                                           fx_start.time, fx_end.time,
                                           fx_start.price, fx_end.price,
                                           fx_start.index, fx_end.index)),
                      bi_index + 1)

_calculate_bi(fx_list, bi_min_kline) ==
    IF Len(fx_list) < 2 THEN << >>
    ELSE BiLoop(fx_list, bi_min_kline, 0, << >>, 0)

----------------------------------------------------------------------------
(* 3. Segments: SimpleICL._calculate_xd *)

\* the inner while that stops at once, after one stroke
XdRunEnd_OneStroke(bis, direction, j) == j

\* the inner while that stops one stroke early, at the stroke it started from
XdRunEnd_Stuck(bis, direction, j) == j - 1

RECURSIVE XdRunEnd(_, _, _)
\* the inner while: the first j >= j0 with j = len(bis) or another direction
XdRunEnd(bis, direction, j) ==
    IF j < Len(bis) /\ bis[j + 1].type = direction
      THEN XdRunEnd(bis, direction, j + 1)
      ELSE j

RECURSIVE XdLoop(_, _, _, _, _)
\* the outer while, from stroke i (0-based) on
XdLoop(bis, xd_min_bi, i, xds, xd_index) ==
    IF i >= Len(bis) THEN xds
    ELSE LET start_bi == bis[i + 1]
             direction == start_bi.type
             j == XdRunEnd(bis, direction, i + 1)
             end_bi == bis[j]
             next_i == IF j > i THEN j ELSE i + 1
         IN  IF j - i >= xd_min_bi
               THEN XdLoop(bis, xd_min_bi, next_i,
                      Append(xds, SimpleXD(xd_index, direction,
                                           start_bi.start_time, end_bi.end_time,
                                           start_bi.start_price, end_bi.end_price,
                                           i, j - 1)),
                      xd_index + 1)
               ELSE XdLoop(bis, xd_min_bi, next_i, xds, xd_index)

_calculate_xd(bis, xd_min_bi) ==
    IF Len(bis) < xd_min_bi THEN << >>
    ELSE XdLoop(bis, xd_min_bi, 0, << >>, 0)

----------------------------------------------------------------------------
(* 3.5 Strengths: SimpleICL._calculate_strengths *)

\* macd_hist.to_list(): the histogram of the close column
HistValues(rows) == [k \in 1..Len(rows) |-> rows[k].macd]

RECURSIVE SumPositive(_, _, _)
\* sum(v for v in hist[s : e + 1] if v > 0)
SumPositive(hist, s, e) ==
    IF s > e THEN 0
    ELSE (IF hist[s + 1] > 0 THEN hist[s + 1] ELSE 0) + SumPositive(hist, s + 1, e)

RECURSIVE SumNegative(_, _, _)
\* sum(-v for v in hist[s : e + 1] if v < 0)
SumNegative(hist, s, e) ==
    IF s > e THEN 0
    ELSE (IF hist[s + 1] < 0 THEN -hist[s + 1] ELSE 0) + SumNegative(hist, s + 1, e)

\* the strength of one stroke without the bar the stroke ends at
BiStrength_EndExclusive(hist, bi) ==
    LET n == Len(hist)
        s == Max2(0, Min2(bi.start_index, bi.end_index))
        e == Min2(n - 1, Max2(bi.start_index, bi.end_index)) - 1
    IN  IF bi.type = "up" THEN SumPositive(hist, s, e) ELSE SumNegative(hist, s, e)

\* the strength of one stroke
BiStrength(hist, bi) ==
    LET n == Len(hist)
        s == Max2(0, Min2(bi.start_index, bi.end_index))
        e == Min2(n - 1, Max2(bi.start_index, bi.end_index))
    IN  IF bi.type = "up" THEN SumPositive(hist, s, e) ELSE SumNegative(hist, s, e)

RECURSIVE SumStrength(_, _, _)
\* sum(self._bis[i].strength for i in range(s, e + 1))
SumStrength(bis, s, e) ==
    IF s > e THEN 0 ELSE bis[s + 1].strength + SumStrength(bis, s + 1, e)

\* the strength of one segment, from the strokes already annotated
XdStrength(bis, xd) ==
    LET s == Max2(0, Min2(xd.start_bi_index, xd.end_bi_index))
        e == Min2(Len(bis) - 1, Max2(xd.start_bi_index, xd.end_bi_index))
    IN  SumStrength(bis, s, e)

\* returns the annotated [bis, xds]
_calculate_strengths(rows, bis, xds) ==
    IF bis = << >> THEN [bis |-> bis, xds |-> xds]
    ELSE LET hist == HistValues(rows)
             bis1 == [k \in 1..Len(bis) |->
                        [bis[k] EXCEPT !.strength = BiStrength(hist, bis[k])]]
         IN  [bis |-> bis1,
              xds |-> [k \in 1..Len(xds) |->
                        [xds[k] EXCEPT !.strength = XdStrength(bis1, xds[k])]]]

----------------------------------------------------------------------------
(* 4. Pivots: SimpleICL._calculate_zs *)

\* the (low, high) price range of a unit
get_bi_range(bi) ==
    IF bi.type = "up" THEN <<bi.start_price, bi.end_price>>
    ELSE <<bi.end_price, bi.start_price>>

\* [r[0] for r in ranges] and [r[1] for r in ranges]
RangeLows(units) == [k \in 1..Len(units) |-> get_bi_range(units[k])[1]]

RangeHighs(units) == [k \in 1..Len(units) |-> get_bi_range(units[k])[2]]

\* the overlap test with strict comparisons: a unit that only touches the
\* range does not overlap it
ZsOverlaps_Strict(next_item, zg, zd) ==
    get_bi_range(next_item)[1] < zg /\ get_bi_range(next_item)[2] > zd

\* the overlap test of the extension loop
ZsOverlaps(next_item, zg, zd) ==
    get_bi_range(next_item)[1] <= zg /\ get_bi_range(next_item)[2] >= zd

RECURSIVE ZsExtend(_, _, _, _)
\* the extension while: the j at which it stops
ZsExtend(items, j, zg, zd) ==
    IF j < Len(items) /\ ZsOverlaps(PyItem(items, j), zg, zd)
      THEN ZsExtend(items, j + 1, zg, zd)
      ELSE j

\* the number of leading members that define zg and zd: all_ranges[:3]
ZsDefiningCount == 3

\* zs_items: the group followed by items[j0], ..., items[j - 1]
ZsItems(items, group, j0, j) ==
    group \o [k \in 1..(j - j0) |-> PyItem(items, j0 + k - 1)]

\* the pivot type from gg, dd against zg, zd
ZsTypeName(zg, zd, gg, dd) ==
    IF gg > zg /\ dd < zd THEN "zd"
    ELSE IF gg > zg THEN "up"
    ELSE IF dd < zd THEN "down"
    ELSE "zd"

\* the pivot built with zg and zd taken over all of its members
ZsBuild_AllMembers(zs_items, level, zs_index) ==
    LET zg == Min(RangeHighs(zs_items))
        zd == Max(RangeLows(zs_items))
        gg == Max(RangeHighs(zs_items))
        dd == Min(RangeLows(zs_items))
    IN  SimpleZS(zs_index, level, ZsTypeName(zg, zd, gg, dd),
                 zs_items[1].start_time, zs_items[Len(zs_items)].end_time,
                 zg, zd, gg, dd)

\* the pivot built from its members
ZsBuild(zs_items, level, zs_index) ==
    LET first_three == PySlice(zs_items, 0, ZsDefiningCount)
        zg == Min(RangeHighs(first_three))
        zd == Max(RangeLows(first_three))
        gg == Max(RangeHighs(zs_items))
        dd == Min(RangeLows(zs_items))
    IN  SimpleZS(zs_index, level, ZsTypeName(zg, zd, gg, dd),
                 zs_items[1].start_time, zs_items[Len(zs_items)].end_time,
                 zg, zd, gg, dd)

RECURSIVE ZsLoop_StepOne(_, _, _, _, _, _)
\* the outer while that moves on by one unit after a pivot, too
ZsLoop_StepOne(items, level, zs_min_bi, i, zss, zs_index) ==
    IF ~(i < Len(items) - zs_min_bi + 1) THEN [raised |-> FALSE, zss |-> zss]
    ELSE LET group == PySlice(items, i, i + zs_min_bi)
         IN  IF group = << >> THEN [raised |-> TRUE, zss |-> zss]
             ELSE LET zg == Min(RangeHighs(group))
                      zd == Max(RangeLows(group))
                      j == ZsExtend(items, i + zs_min_bi, zg, zd)
                  IN  IF zd < zg
                        THEN ZsLoop_StepOne(items, level, zs_min_bi, i + 1,
                               Append(zss, ZsBuild(ZsItems(items, group,
                                                           i + zs_min_bi, j),
                                                   level, zs_index)),
                               zs_index + 1)
                        ELSE ZsLoop_StepOne(items, level, zs_min_bi, i + 1, zss, zs_index)

RECURSIVE ZsLoop(_, _, _, _, _, _)
\* the outer while, from unit i on; raised: min() of an empty group
ZsLoop(items, level, zs_min_bi, i, zss, zs_index) ==
    IF ~(i < Len(items) - zs_min_bi + 1) THEN [raised |-> FALSE, zss |-> zss]
    ELSE LET group == PySlice(items, i, i + zs_min_bi)
         IN  IF group = << >> THEN [raised |-> TRUE, zss |-> zss]
             ELSE LET zg == Min(RangeHighs(group))
                      zd == Max(RangeLows(group))
                      j == ZsExtend(items, i + zs_min_bi, zg, zd)
                  IN  IF zd < zg
                        THEN ZsLoop(items, level, zs_min_bi, j,
                               Append(zss, ZsBuild(ZsItems(items, group,
                                                           i + zs_min_bi, j),
                                                   level, zs_index)),
                               zs_index + 1)
                        ELSE ZsLoop(items, level, zs_min_bi, i + 1, zss, zs_index)

\* returns [raised, zss]; raised stands for the ValueError of min([])
_calculate_zs(items, level, zs_min_bi) ==
    IF Len(items) < zs_min_bi THEN [raised |-> FALSE, zss |-> << >>]
    ELSE ZsLoop(items, level, zs_min_bi, 0, << >>, 0)

----------------------------------------------------------------------------
(* 5. Divergence flags and turning-point markers *)

\* _check_bi_divergence that asks for a weaker stroke, not one below 0.8 times
_check_bi_divergence_AnyWeaker(prev_bi, current_bi) ==
    IF prev_bi.type # current_bi.type THEN FALSE
    ELSE IF prev_bi.strength <= 0 \/ current_bi.strength <= 0 THEN FALSE
    ELSE IF prev_bi.type = "up"
      THEN /\ current_bi.end_price > prev_bi.end_price
           /\ current_bi.strength < prev_bi.strength
      ELSE /\ current_bi.end_price < prev_bi.end_price
           /\ current_bi.strength < prev_bi.strength

\* SimpleICL._check_bi_divergence
_check_bi_divergence(prev_bi, current_bi) ==
    IF prev_bi.type # current_bi.type THEN FALSE
    ELSE IF prev_bi.strength <= 0 \/ current_bi.strength <= 0 THEN FALSE
    ELSE IF prev_bi.type = "up"
      THEN /\ current_bi.end_price > prev_bi.end_price
           /\ 10 * current_bi.strength < 8 * prev_bi.strength
      ELSE /\ current_bi.end_price < prev_bi.end_price
           /\ 10 * current_bi.strength < 8 * prev_bi.strength

\* SimpleICL._check_xd_divergence
_check_xd_divergence(prev_xd, current_xd) ==
    IF prev_xd.type # current_xd.type THEN FALSE
    ELSE IF prev_xd.strength <= 0 \/ current_xd.strength <= 0 THEN FALSE
    ELSE IF prev_xd.type = "up"
      THEN /\ current_xd.end_price > prev_xd.end_price
           /\ 10 * current_xd.strength < 8 * prev_xd.strength
      ELSE /\ current_xd.end_price < prev_xd.end_price
           /\ 10 * current_xd.strength < 8 * prev_xd.strength

\* the time-overlap test of _find_related_zs
ZsTimeOverlaps(item, zs) ==
    item.start_time <= zs.end_time /\ item.end_time >= zs.start_time

\* _find_related_zs that returns the last pivot in list order that overlaps
_find_related_zs_Last(item, zss) ==
    LET hits == {k \in 1..Len(zss) : ZsTimeOverlaps(item, zss[k])}
    IN  IF hits = {} THEN << >>
        ELSE <<(CHOOSE k \in hits : \A h \in hits : k >= h) - 1>>

\* SimpleICL._find_related_zs: the first pivot in list order, or None
_find_related_zs(item, zss) ==
    LET hits == {k \in 1..Len(zss) : ZsTimeOverlaps(item, zss[k])}
    IN  IF hits = {} THEN << >>
        ELSE <<(CHOOSE k \in hits : \A h \in hits : k <= h) - 1>>

\* _is_leaving_zs against the outer bounds gg and dd
_is_leaving_zs_Outer(item, zs) ==
    IF item.type = "down" THEN item.end_price < zs.dd
    ELSE item.end_price > zs.gg

\* _is_leaving_zs that lets every unit leave
_is_leaving_zs_Always(item, zs) == TRUE

\* SimpleICL._is_leaving_zs
_is_leaving_zs(item, zs) ==
    IF item.type = "down" THEN item.end_price < zs.zd
    ELSE item.end_price > zs.zg

\* BiBcScan that looks at the nearest stroke of the same direction only
BiBcScan_Nearest(bis, i, j) ==
    IF j < 0 THEN << >>
    ELSE IF bis[i + 1].type = bis[j + 1].type
            /\ _check_bi_divergence(bis[j + 1], bis[i + 1]) THEN <<j>>
    ELSE << >>

RECURSIVE BiBcScan(_, _, _)
\* the inner for over range(i - 2, -1, -2): <<j>> of the first divergent
\* pair, << >> if the loop runs out
BiBcScan(bis, i, j) ==
    IF j < 0 THEN << >>
    ELSE IF bis[i + 1].type = bis[j + 1].type
            /\ _check_bi_divergence(bis[j + 1], bis[i + 1]) THEN <<j>>
    ELSE BiBcScan(bis, i, j - 2)

\* the flag, and the marker if any, one divergent stroke receives
BiMark(current_bi, bi_zss) ==
    LET related_zs == _find_related_zs(current_bi, bi_zss)
        flagged == [current_bi EXCEPT
                      !.bcs = Append(@, SimpleBC("bi", TRUE, related_zs))]
    IN  IF related_zs # << >>
           /\ _is_leaving_zs(current_bi, bi_zss[related_zs[1] + 1])
          THEN [flagged EXCEPT !.mmds = Append(@,
                  IF current_bi.type = "down"
                    THEN SimpleMMD("1buy", related_zs, "bi divergence 1buy")
                    ELSE SimpleMMD("1sell", related_zs, "bi divergence 1sell"))]
          ELSE flagged

\* the fewest strokes for which stroke divergence is looked for
BiBcMinCount == 5

\* SimpleICL._calculate_bi_bcs_and_mmds: the strokes with flags and markers
_calculate_bi_bcs_and_mmds(bis, bi_zss) ==
    IF Len(bis) < BiBcMinCount THEN bis
    ELSE [k \in 1..Len(bis) |->
            IF k - 1 >= 2 /\ BiBcScan(bis, k - 1, k - 3) # << >>
              THEN BiMark(bis[k], bi_zss)
              ELSE bis[k]]

RECURSIVE XdBcScan(_, _, _)
\* the inner for of the segment pass
XdBcScan(xds, i, j) ==
    IF j < 0 THEN << >>
    ELSE IF xds[i + 1].type = xds[j + 1].type
            /\ _check_xd_divergence(xds[j + 1], xds[i + 1]) THEN <<j>>
    ELSE XdBcScan(xds, i, j - 2)

\* the flag, and the marker if any, one divergent segment receives
XdMark(current_xd, xd_zss) ==
    LET related_zs == _find_related_zs(current_xd, xd_zss)
        flagged == [current_xd EXCEPT
                      !.bcs = Append(@, SimpleBC("xd", TRUE, related_zs))]
    IN  IF related_zs # << >>
           /\ _is_leaving_zs(current_xd, xd_zss[related_zs[1] + 1])
          THEN [flagged EXCEPT !.mmds = Append(@,
                  IF current_xd.type = "down"
                    THEN SimpleMMD("2buy", related_zs, "xd divergence 2buy")
                    ELSE SimpleMMD("2sell", related_zs, "xd divergence 2sell"))]
          ELSE flagged

\* the fewest segments for which segment divergence is looked for
XdBcMinCount == 3

\* SimpleICL._calculate_xd_bcs_and_mmds
_calculate_xd_bcs_and_mmds(xds, xd_zss) ==
    IF Len(xds) < XdBcMinCount THEN xds
    ELSE [k \in 1..Len(xds) |->
            IF k - 1 >= 2 /\ XdBcScan(xds, k - 1, k - 3) # << >>
              THEN XdMark(xds[k], xd_zss)
              ELSE xds[k]]

\* get_xd_range of the third-type and quasi passes: (low, high)
get_xd_range(xd) ==
    <<Min2(xd.start_price, xd.end_price), Max2(xd.start_price, xd.end_price)>>

\* indices_in_zs: the segments whose time range lies inside the pivot's
IndicesInZs(xds, zs) ==
    {idx \in 0..(Len(xds) - 1) :
        /\ xds[idx + 1].start_time >= zs.start_time
        /\ xds[idx + 1].end_time <= zs.end_time}

RECURSIVE NextOfType(_, _, _)
\* the first j >= j0 with xds[j].type = type, len(xds) if there is none
NextOfType(xds, type, j) ==
    IF j < Len(xds) /\ xds[j + 1].type # type
      THEN NextOfType(xds, type, j + 1)
      ELSE j

\* xds with one marker appended to segment j (0-based)
AddMmd(xds, j, mmd) == [xds EXCEPT ![j + 1].mmds = Append(@, mmd)]

RECURSIVE Class3Scan_NoReturnTest(_, _, _, _)
\* Class3Scan without the test that the marked segment stays outside the pivot
Class3Scan_NoReturnTest(xds, zs, zs_ref, i) ==
    IF i >= Len(xds) THEN xds
    ELSE LET xd == xds[i + 1]
             low == get_xd_range(xd)[1]
             high == get_xd_range(xd)[2]
         IN  IF xd.type = "up" /\ zs.zd < xd.start_price
                /\ xd.start_price < zs.zg /\ high > zs.zg
               THEN LET j == NextOfType(xds, "down", i + 1)
                    IN  IF j < Len(xds)
                          THEN AddMmd(xds, j, SimpleMMD("3buy", zs_ref, "3buy"))
                          ELSE xds
             ELSE IF xd.type = "down" /\ zs.zd < xd.start_price
                     /\ xd.start_price < zs.zg /\ low < zs.zd
               THEN LET j == NextOfType(xds, "up", i + 1)
                    IN  IF j < Len(xds)
                          THEN AddMmd(xds, j, SimpleMMD("3sell", zs_ref, "3sell"))
                          ELSE xds
             ELSE Class3Scan_NoReturnTest(xds, zs, zs_ref, i + 1)

RECURSIVE Class3Scan(_, _, _, _)
\* the while over the segments after the pivot, from segment i on
Class3Scan(xds, zs, zs_ref, i) ==
    IF i >= Len(xds) THEN xds
    ELSE LET xd == xds[i + 1]
             low == get_xd_range(xd)[1]
             high == get_xd_range(xd)[2]
         IN  IF xd.type = "up" /\ zs.zd < xd.start_price
                /\ xd.start_price < zs.zg /\ high > zs.zg
               THEN LET j == NextOfType(xds, "down", i + 1)
                    IN  IF j < Len(xds) /\ get_xd_range(xds[j + 1])[1] > zs.zd
                          THEN AddMmd(xds, j, SimpleMMD("3buy", zs_ref, "3buy"))
                          ELSE xds
             ELSE IF xd.type = "down" /\ zs.zd < xd.start_price
                     /\ xd.start_price < zs.zg /\ low < zs.zd
               THEN LET j == NextOfType(xds, "up", i + 1)
                    IN  IF j < Len(xds) /\ get_xd_range(xds[j + 1])[2] < zs.zg
                          THEN AddMmd(xds, j, SimpleMMD("3sell", zs_ref, "3sell"))
                          ELSE xds
             ELSE Class3Scan(xds, zs, zs_ref, i + 1)

RECURSIVE Class3Loop(_, _, _)
\* the for over the pivots, from pivot k (0-based) on
Class3Loop(xds, zss, k) ==
    IF k >= Len(zss) THEN xds
    ELSE LET zs == zss[k + 1]
             inside == IndicesInZs(xds, zs)
             last_idx == CHOOSE x \in inside : \A y \in inside : x >= y
         IN  IF inside = {} THEN Class3Loop(xds, zss, k + 1)
             ELSE Class3Loop(Class3Scan(xds, zs, <<k>>, last_idx + 1), zss, k + 1)

\* SimpleICL._calculate_xd_class3_mmds
_calculate_xd_class3_mmds(xds, xd_zss) ==
    IF xds = << >> \/ xd_zss = << >> THEN xds
    ELSE Class3Loop(xds, xd_zss, 0)

\* the quasi test on the buy side: ranges overlap and the low is higher
LikeBuy(xd, last_xd) ==
    LET low == get_xd_range(xd)[1]             high == get_xd_range(xd)[2]
        prev_low == get_xd_range(last_xd)[1]   prev_high == get_xd_range(last_xd)[2]
    IN  Min2(high, prev_high) > Max2(low, prev_low) /\ low > prev_low

\* the quasi test on the sell side: ranges overlap and the high is lower
LikeSell(xd, last_xd) ==
    LET low == get_xd_range(xd)[1]             high == get_xd_range(xd)[2]
        prev_low == get_xd_range(last_xd)[1]   prev_high == get_xd_range(last_xd)[2]
    IN  Min2(high, prev_high) > Max2(low, prev_low) /\ high < prev_high

\* xd with the marker appended when the tracker is set and the test holds
LikeAdd(xd, last, type, buy, name) ==
    IF last # << >> /\ xd.type = type
       /\ (IF buy THEN LikeBuy(xd, last[1]) ELSE LikeSell(xd, last[1]))
      THEN [xd EXCEPT !.mmds = Append(@, SimpleMMD(name, << >>, name))]
      ELSE xd

\* "name" in mmd_names
HasMmd(unit, name) == \E k \in 1..Len(unit.mmds) : unit.mmds[k].name = name

\* LikeTrack that tracks a segment of either type
LikeTrack_AnyType(last, xd, name, type) ==
    IF HasMmd(xd, name) THEN <<xd>> ELSE last

\* the tracker after segment xd: xd itself if it carries name and has the type
LikeTrack(last, xd, name, type) ==
    IF HasMmd(xd, name) /\ xd.type = type THEN <<xd>> ELSE last

RECURSIVE LikeLoop(_, _, _, _, _, _)
\* the for over the segments, from segment i on, with the four trackers
LikeLoop(xds, i, last_2buy_xd, last_2sell_xd, last_3buy_xd, last_3sell_xd) ==
    IF i >= Len(xds) THEN xds
    ELSE LET xd1 == LikeAdd(xds[i + 1], last_2buy_xd, "up", TRUE, "class2buy")
             xd2 == LikeAdd(xd1, last_2sell_xd, "down", FALSE, "class2sell")
             xd3 == LikeAdd(xd2, last_3buy_xd, "up", TRUE, "class3buy")
             xd4 == LikeAdd(xd3, last_3sell_xd, "down", FALSE, "class3sell")
         IN  LikeLoop([xds EXCEPT ![i + 1] = xd4], i + 1,
                      LikeTrack(last_2buy_xd, xd4, "2buy", "up"),
                      LikeTrack(last_2sell_xd, xd4, "2sell", "down"),
                      LikeTrack(last_3buy_xd, xd4, "3buy", "up"),
                      LikeTrack(last_3sell_xd, xd4, "3sell", "down"))

\* SimpleICL._calculate_xd_like_class2_and_class3_mmds
_calculate_xd_like_class2_and_class3_mmds(xds) ==
    IF xds = << >> THEN xds
    ELSE LikeLoop(xds, 0, << >>, << >>, << >>, << >>)

\* SimpleICL._calculate_mmds_and_bcs: the four passes in order
_calculate_mmds_and_bcs(bis, xds, bi_zss, xd_zss) ==
    Sole({Sole({[bis |-> _calculate_bi_bcs_and_mmds(bis, bi_zss),
                 xds |-> _calculate_xd_like_class2_and_class3_mmds(xds2)] :
                xds2 \in {_calculate_xd_class3_mmds(xds1, xd_zss)}}) :
          xds1 \in {_calculate_xd_bcs_and_mmds(xds, xd_zss)}})

----------------------------------------------------------------------------
(* The objects and their handlers *)

\* the defaults of config.get in SimpleICL.__init__ (and of EngineConfig)
DefaultBiMinKline == 5

DefaultXdMinBi == 3

DefaultZsMinBi == 3

\* Python's None where a dict is expected
None == [none |-> TRUE]

\* EngineConfig(options, bi_min_kline, xd_min_bi, zs_min_bi) with its
\* __post_init__: no test of the thresholds, options None becomes {}
EngineConfig(options, bi_min_kline, xd_min_bi, zs_min_bi) ==
    [made |-> TRUE,
     options |-> IF options = None THEN << >> ELSE options,
     bi_min_kline |-> bi_min_kline,
     xd_min_bi |-> xd_min_bi, zs_min_bi |-> zs_min_bi]

\* no engine: none has been constructed
NoEngine ==
    [made |-> FALSE, options |-> << >>, bi_min_kline |-> 0, xd_min_bi |-> 0,
     zs_min_bi |-> 0]

\* SimpleICL.__init__(config): no test of the thresholds, empty result lists
SimpleICL(config) ==
    [made |-> TRUE,
     bi_min_kline |-> ConfigGet(config, "bi_min_kline", DefaultBiMinKline),
     xd_min_bi |-> ConfigGet(config, "xd_min_bi", DefaultXdMinBi),
     zs_min_bi |-> ConfigGet(config, "zs_min_bi", DefaultZsMinBi),
     bis |-> << >>, xds |-> << >>, bi_zss |-> << >>, xd_zss |-> << >>,
     zsd_zss |-> << >>]

\* no SimpleICL object: analyze_klines has not constructed one
NoICL ==
    [made |-> FALSE, bi_min_kline |-> 0, xd_min_bi |-> 0, zs_min_bi |-> 0,
     bis |-> << >>, xds |-> << >>, bi_zss |-> << >>, xd_zss |-> << >>,
     zsd_zss |-> << >>]

\* required_cols of process_klines
RequiredCols == {"date", "open", "high", "low", "close"}

\* the outcome of a call: the object after it, the exception, the stages
Outcome(obj, exc, entered) == [icl |-> obj, error |-> exc, stages |-> entered]

\* process_klines once both pivot lists are computed: the segment pivots
\* are stored and the marker passes run, unless the segment pivots raised
ProcessFromMmds(self, st, bi_zs, xd_zs) ==
    IF xd_zs.raised
      THEN Outcome(self, "ValueError",
                   <<"fx", "bi", "xd", "strengths", "bi_zs", "xd_zs">>)
    ELSE Sole({Outcome([self EXCEPT !.xd_zss = xd_zs.zss,
                                    !.bis = mm.bis, !.xds = mm.xds],
                       "",
                       <<"fx", "bi", "xd", "strengths", "bi_zs", "xd_zs", "mmds">>) :
               mm \in {_calculate_mmds_and_bcs(st.bis, st.xds, bi_zs.zss, xd_zs.zss)}})

\* process_klines once the stroke pivots are computed: they are stored and
\* the segment pivots computed, unless the stroke pivots raised
ProcessFromXdZs(self, st, bi_zs) ==
    IF bi_zs.raised
      THEN Outcome(self, "ValueError", <<"fx", "bi", "xd", "strengths", "bi_zs">>)
    ELSE Sole({ProcessFromMmds([self EXCEPT !.bi_zss = bi_zs.zss], st, bi_zs, xd_zs) :
               xd_zs \in {_calculate_zs(st.xds, "xd", self.zs_min_bi)}})

\* process_klines once strokes and segments carry their strengths: they are
\* stored in self._bis and self._xds and the stroke pivots computed
ProcessFromBiZs(self, st) ==
    Sole({ProcessFromXdZs([self EXCEPT !.bis = st.bis, !.xds = st.xds], st, bi_zs) :
          bi_zs \in {_calculate_zs(st.bis, "bi", self.zs_min_bi)}})

\* process_klines once the strokes are computed: segments, then strengths
ProcessFromXd(self, rows, bis0) ==
    Sole({Sole({ProcessFromBiZs(self, st) :
                st \in {_calculate_strengths(rows, bis0, xds0)}}) :
          xds0 \in {_calculate_xd(bis0, self.xd_min_bi)}})

\* process_klines from the strokes on: every assignment to self._* made
\* before a stage raises stays made
ProcessFrom(self, rows, fx_list) ==
    Sole({ProcessFromXd(self, rows, bis0) :
          bis0 \in {_calculate_bi(fx_list, self.bi_min_kline)}})

\* SimpleICL.process_klines(df)
process_klines(self, df) ==
    IF Len(df.rows) = 0 THEN Outcome(self, "", << >>)
    ELSE IF ~(RequiredCols \subseteq df.columns) THEN Outcome(self, "ValueError", << >>)
    ELSE Sole({ProcessFrom(self, df.rows, fx_list) :
               fx_list \in {_calculate_fx(df.rows)}})

\* the keys analyze_klines reads from every kline
KlineKeys == {"date", "open", "high", "low", "close", "volume"}

\* the least number of klines analyze_klines accepts
MinKlineCount == 50

\* the length test with the least count one too low
TooFewKlines_OneLess(rows) == Len(rows) < MinKlineCount - 1

\* the length test of analyze_klines
TooFewKlines(rows) == Len(rows) < MinKlineCount

\* ChanlunEngine.analyze_klines(klines): klines is [columns, rows], columns
\* being the keys every kline has.  Dates are integers, which to_datetime
\* converts, so the NaT test never fires.  The SimpleICL object is returned
\* only if process_klines returns: an exception leaves the caller with old.
analyze_klines(config, old, klines) ==
    IF klines.rows # << >> /\ ~(KlineKeys \subseteq klines.columns)
      THEN Outcome(old, "KeyError", << >>)
    ELSE IF klines.rows = << >> THEN Outcome(old, "ValueError", << >>)
    ELSE IF TooFewKlines(klines.rows) THEN Outcome(old, "ValueError", << >>)
    ELSE Sole({IF out.error = "" THEN out ELSE Outcome(old, out.error, out.stages) :
               out \in {process_klines(SimpleICL(config.options),
                                       [columns |-> KlineKeys, rows |-> klines.rows])}})

\* a caller constructs EngineConfig(**call.config) and ChanlunEngine(config)
ConstructEngine ==
    /\ pc = "new"
    /\ call.api = "analyze_klines"
    /\ engine' = EngineConfig(call.config.options, call.config.bi_min_kline,
                              call.config.xd_min_bi, call.config.zs_min_bi)
    /\ pc' = "ready"
    /\ UNCHANGED <<icl, call, error, stages>>

\* a caller constructs SimpleICL(code, frequency, call.config)
ConstructICL ==
    /\ pc = "new"
    /\ call.api = "process_klines"
    /\ icl' = SimpleICL(call.config)
    /\ pc' = "ready"
    /\ UNCHANGED <<engine, call, error, stages>>

\* a caller runs SimpleICL.process_klines on the object it constructed
ProcessKlines ==
    /\ pc = "ready"
    /\ call.api = "process_klines"
    /\ \E out \in {process_klines(icl, call.df)} :
           /\ icl' = out.icl
           /\ error' = out.error
           /\ stages' = out.stages
           /\ pc' = IF out.error = "" THEN "returned" ELSE "raised"
    /\ UNCHANGED <<engine, call>>

\* a caller runs ChanlunEngine.analyze_klines
AnalyzeKlines ==
    /\ pc = "ready"
    /\ call.api = "analyze_klines"
    /\ \E out \in {analyze_klines(engine, icl, call.df)} :
           /\ icl' = out.icl
           /\ error' = out.error
           /\ stages' = out.stages
           /\ pc' = IF out.error = "" THEN "returned" ELSE "raised"
    /\ UNCHANGED <<engine, call>>

----------------------------------------------------------------------------
(* Inputs *)

\* the longest bar sequence drawn exhaustively over 0..MaxLevel
MaxBars == 7

\* bar prices are drawn from 0..MaxLevel
MaxLevel == 2

\* the longest bar sequence drawn exhaustively over the two prices 0 and 1
MaxBinaryBars == 10

\* thresholds are drawn from 1..MaxThreshold
MaxThreshold == 3

\* every sequence over S of length 0..n
SeqsUpTo(S, n) == UNION {[1..m -> S] : m \in 0..n}

\* seq and every sequence that differs from it in one place, by a value of S
Perturb(seq, S) == {seq} \cup {[seq EXCEPT ![k] = v] : k \in 1..Len(seq), v \in S}

\* the bars with high = low = lv[k], dated dates[k], with histogram hist
DatedRows(lv, hist, dates) ==
    [k \in 1..Len(lv) |-> [date |-> dates[k], high |-> lv[k], low |-> lv[k], macd |-> hist[k]]]

\* the dates 0, 1, ..., n - 1
Increasing(n) == [k \in 1..n |-> k - 1]

\* the bars with high = low = lv[k], dated 0, 1, ..., with histogram hist
LevelRows(lv, hist) == DatedRows(lv, hist, Increasing(Len(lv)))

\* the all-zero histogram (a constant close)
ZeroHist(n) == [k \in 1..n |-> 0]

\* a DataFrame with every column
DataFrame(rows) == [columns |-> KlineKeys, rows |-> rows]

\* a config dict with the three thresholds
Config(b, x, z) == [bi_min_kline |-> b, xd_min_bi |-> x, zs_min_bi |-> z]

\* the state after SimpleICL(config) is constructed and df is about to be processed
InitProcess(configs, dfs) ==
    /\ engine = NoEngine
    /\ \E c \in configs : \E d \in dfs :
          /\ call = [api |-> "process_klines", config |-> c, df |-> d]
          /\ icl = SimpleICL(c)
    /\ pc = "ready"
    /\ error = ""
    /\ stages = << >>

NextICL == ProcessKlines

----------------------------------------------------------------------------
(* Stroke building: SpecBi *)

\* two up pairs two bars long around a down pair one bar long, then a down pair
TwoUpLevels == <<1, 0, 1, 2, 0, 1, 2, 1, 0, 1>>

\* the level sequences of SpecBi: every short one, every longer one over
\* two prices, and scenario with its variations in one place
BiLevels(scenario) ==
    SeqsUpTo(0..MaxLevel, MaxBars) \cup SeqsUpTo({0, 1}, MaxBinaryBars)
      \cup Perturb(scenario, 0..MaxLevel)

BiConfigs == {Config(b, DefaultXdMinBi, DefaultZsMinBi) : b \in 1..MaxThreshold}

\* the frames of the level sequences with a constant close
BiFrames(levels) == {DataFrame(LevelRows(lv, ZeroHist(Len(lv)))) : lv \in levels}

InitBi == InitProcess(BiConfigs, BiFrames(BiLevels(TwoUpLevels)))

SpecBi == InitBi /\ [][NextICL]_vars

\* C2: any two consecutive strokes of the stroke list have different
\* directions, for every fractal list and every min_bars_per_stroke.
C2_Alternation ==
    \A k \in 1..(Len(icl.bis) - 1) : icl.bis[k].type # icl.bis[k + 1].type

\* the call returned two strokes or more, having passed over a pair of
\* fractals that was long enough and of two kinds: the direction test acted
C2_Witness ==
    /\ pc = "returned"
    /\ Len(icl.bis) >= 2
    /\ LET fx == _calculate_fx(call.df.rows)
       IN  \E i \in 1..(Len(fx) - 1) :
             /\ fx[i + 1].index - fx[i].index >= icl.bi_min_kline
             /\ BiDirection(fx[i], fx[i + 1]) # "skip"
             /\ \A k \in 1..Len(icl.bis) : icl.bis[k].start_index # fx[i].index

\* C3: for consecutive strokes, end_bar_index(i) <= start_bar_index(i+1),
\* with equality only when the end fractal of stroke i is the start fractal
\* of stroke i+1 (the bar ranges may touch, never cross).
C3_RangesTouchNeverCross ==
    \A k \in 1..(Len(icl.bis) - 1) :
        /\ icl.bis[k].end_index <= icl.bis[k + 1].start_index
        /\ icl.bis[k].end_index = icl.bis[k + 1].start_index
             => /\ icl.bis[k].end_time = icl.bis[k + 1].start_time
                /\ icl.bis[k].end_price = icl.bis[k + 1].start_price

\* the call returned strokes of which two touch and two lie apart
C3_Witness ==
    /\ pc = "returned"
    /\ \E k \in 1..(Len(icl.bis) - 1) :
          icl.bis[k].end_index = icl.bis[k + 1].start_index
    /\ \E k \in 1..(Len(icl.bis) - 1) :
          icl.bis[k].end_index < icl.bis[k + 1].start_index

----------------------------------------------------------------------------
(* Pivot building: SpecZs *)

\* strokes of one bar or more, segments of one stroke or of three, every
\* pivot threshold of 1..MaxThreshold
ZsConfigs ==
    {Config(1, x, z) : x \in {1, DefaultXdMinBi}, z \in 1..MaxThreshold}

InitZs == InitProcess(ZsConfigs, BiFrames(BiLevels(TwoUpLevels)))

SpecZs == InitZs /\ [][NextICL]_vars

\* the pivots of both levels the object holds
AllZss == {icl.bi_zss[k] : k \in 1..Len(icl.bi_zss)} \cup {icl.xd_zss[k] : k \in 1..Len(icl.xd_zss)}

\* C1: every pivot the pivot builder emits has zd < zg, gg >= zg and
\* dd <= zd, for every unit list and every min_units >= 1.
C1_PivotInvariant ==
    \A zs \in AllZss : zs.zd < zs.zg /\ zs.gg >= zs.zg /\ zs.dd <= zs.zd

\* C1, where it holds: the pivots built with min_units >= 3
C1_FromThreeUnits ==
    icl.zs_min_bi >= ZsDefiningCount
      => \A zs \in AllZss : zs.zd < zs.zg /\ zs.gg >= zs.zg /\ zs.dd <= zs.zd

\* C1, the part that holds for every min_units: gg >= zg and dd <= zd
C1_OuterBounds ==
    \A zs \in AllZss : zs.gg >= zs.zg /\ zs.dd <= zs.zd

----------------------------------------------------------------------------
(* Divergence flags and first/second-type markers: SpecBc *)

\* histogram magnitudes are drawn from 0 and MaxStrength - 2 .. MaxStrength
MaxStrength == 5

\* the histogram values drawn at a bar
SignedStrengths ==
    {0} \cup ((MaxStrength - 2)..MaxStrength) \cup {-m : m \in (MaxStrength - 2)..MaxStrength}

\* every prefix of seq
Prefixes(seq) == {SubSeq(seq, 1, n) : n \in 0..Len(seq)}

\* a zigzag of seven strokes whose peaks and troughs rise
RisingLevels == <<1, 0, 2, 1, 3, 2, 4, 3, 5, 4>>

\* a zigzag of seven strokes whose peaks and troughs fall
FallingLevels == <<4, 5, 3, 4, 2, 3, 1, 2, 0, 1>>

\* an up stroke, then apart from it a high pivot of three strokes, then a
\* low pivot of three strokes that starts where the high one ends
PivotPairLevels == <<1, 0, 1, 0, 0, 5, 4, 5, 0, 3, 1, 2, 1>>

\* the mirror image of PivotPairLevels
PivotPairMirror == <<4, 5, 4, 5, 5, 0, 1, 0, 5, 2, 4, 3, 4>>

\* the histogram that is MaxStrength at every peak of lv, -MaxStrength at
\* every trough and 0 elsewhere
FractalHist(lv) ==
    LET rows == LevelRows(lv, ZeroHist(Len(lv)))
    IN  [k \in 1..Len(lv) |->
           IF k = 1 \/ k = Len(lv) THEN 0
           ELSE IF IsDing(rows, k - 1) THEN MaxStrength
           ELSE IF IsDi(rows, k - 1) THEN -MaxStrength
           ELSE 0]

\* hist and every histogram that differs from it at one or two bars after
\* the first (the histogram of the first bar of a frame is always 0)
TwoSite(hist) ==
    {hist} \cup
    {[hist EXCEPT ![a] = u, ![b] = v] :
        a \in 2..Len(hist), b \in 2..Len(hist), u \in SignedStrengths, v \in SignedStrengths}

\* the level sequences of SpecBc whose histogram is varied
BcScenarios ==
    Prefixes(RisingLevels) \cup Prefixes(FallingLevels)
      \cup {PivotPairLevels, PivotPairMirror}

\* the frames of lv with every histogram of TwoSite(FractalHist(lv))
TwoSiteFrames(lv) == {DataFrame(LevelRows(lv, h)) : h \in TwoSite(FractalHist(lv))}

\* the frames of lv and its variations in one place, with their FractalHist
PerturbedFrames(lv) ==
    {DataFrame(LevelRows(v, FractalHist(v))) : v \in Perturb(lv, 0..(MaxLevel + 3))}

\* strokes of one bar or more, every stroke a segment, the default pivot
BcConfigs == {Config(1, 1, DefaultZsMinBi)}

InitBc ==
    \/ \E lv \in BcScenarios : InitProcess(BcConfigs, TwoSiteFrames(lv))
    \/ \E lv \in {RisingLevels, FallingLevels, PivotPairLevels, PivotPairMirror} :
          InitProcess(BcConfigs, PerturbedFrames(lv))

SpecBc == InitBc /\ [][NextICL]_vars

\* the two unit lists of the object
UnitLists == {icl.bis, icl.xds}

\* the end price of later is more extreme than that of earlier
MoreExtreme(later, earlier) ==
    IF later.type = "up" THEN later.end_price > earlier.end_price
    ELSE later.end_price < earlier.end_price

\* both strengths are positive and later's is below 0.8 times earlier's
MuchWeaker(later, earlier) ==
    /\ later.strength > 0
    /\ earlier.strength > 0
    /\ 10 * later.strength < 8 * earlier.strength

\* C4: a DivergenceFlag is attached to a unit (stroke or segment) only if
\* an earlier unit of the same direction in the same list has a less
\* extreme end price, both strengths are > 0 and the later strength is
\* strictly less than 0.8 times the earlier one.
C4_FlagOnlyIfDivergent ==
    \A units \in UnitLists : \A i \in 1..Len(units) :
        units[i].bcs # << >>
          => \E j \in 1..(i - 1) :
                /\ units[j].type = units[i].type
                /\ MoreExtreme(units[i], units[j])
                /\ MuchWeaker(units[i], units[j])

\* the call returned a flagged stroke and a flagged segment, and a stroke
\* left without a flag that is weaker than an earlier stroke of its
\* direction with a less extreme end, but not below 0.8 times
C4_Witness ==
    /\ pc = "returned"
    /\ \E i \in 1..Len(icl.bis) : icl.bis[i].bcs # << >>
    /\ \E i \in 1..Len(icl.xds) : icl.xds[i].bcs # << >>
    /\ \E i \in 1..Len(icl.bis) : \E j \in 1..(i - 1) :
          /\ icl.bis[i].bcs = << >>
          /\ icl.bis[j].type = icl.bis[i].type
          /\ MoreExtreme(icl.bis[i], icl.bis[j])
          /\ 0 < icl.bis[i].strength
          /\ icl.bis[i].strength < icl.bis[j].strength

\* unit i (1-based) diverges from some unit i - 2, i - 4, ... of its direction
DivergesFromEarlier(units, i) ==
    \E j \in 1..(i - 2) :
        /\ (i - j) % 2 = 0
        /\ units[j].type = units[i].type
        /\ MoreExtreme(units[i], units[j])
        /\ MuchWeaker(units[i], units[j])

\* every unit from the third on carries one flag if it diverges, else none
FlagsAsScanned(units) ==
    \A i \in 3..Len(units) :
        Len(units[i].bcs) = (IF DivergesFromEarlier(units, i) THEN 1 ELSE 0)

MarkerCount(unit, name) == Cardinality({k \in 1..Len(unit.mmds) : unit.mmds[k].name = name})

\* the end price of unit lies beyond the pivot: above zg (up), below zd (down)
Beyond(unit, zs) ==
    IF unit.type = "up" THEN zs.zg < unit.end_price ELSE unit.end_price < zs.zd

\* the pivots of zss (1-based places) whose time range overlaps the unit's
Overlapping(unit, zss) ==
    {k \in 1..Len(zss) :
        unit.start_time <= zss[k].end_time /\ unit.end_time >= zss[k].start_time}

\* the marker name of the side: sell for an up unit, buy for a down unit
SideName(unit, sell, buy) == IF unit.type = "up" THEN sell ELSE buy

\* C6 as stated: a flagged up stroke for which some stroke-level pivot
\* overlaps its time range with zg below its end price carries exactly one
\* first_sell marker (down stroke, end price below zd: one first_buy).
C6_SomeOverlappingPivot ==
    \A i \in 1..Len(icl.bis) :
        (/\ icl.bis[i].bcs # << >>
         /\ \E k \in Overlapping(icl.bis[i], icl.bi_zss) : Beyond(icl.bis[i], icl.bi_zss[k]))
          => MarkerCount(icl.bis[i], SideName(icl.bis[i], "1sell", "1buy")) = 1

\* C6, amended: a flagged up stroke carries exactly one first_sell marker if
\* the first pivot in list order that overlaps its time range has zg below
\* its end price (down stroke, zd above its end price: one first_buy).
C6_FirstOverlappingPivot ==
    \A i \in 1..Len(icl.bis) :
        (/\ icl.bis[i].bcs # << >>
         /\ \E k \in Overlapping(icl.bis[i], icl.bi_zss) :
               /\ \A h \in Overlapping(icl.bis[i], icl.bi_zss) : k <= h
               /\ Beyond(icl.bis[i], icl.bi_zss[k]))
          => MarkerCount(icl.bis[i], SideName(icl.bis[i], "1sell", "1buy")) = 1

\* the call returned a flagged up stroke beyond the zg of the first pivot
\* that overlaps it, carrying its one first_sell
C6_Witness ==
    /\ pc = "returned"
    /\ \E i \in 1..Len(icl.bis) :
          /\ icl.bis[i].type = "up"
          /\ icl.bis[i].bcs # << >>
          /\ \E k \in Overlapping(icl.bis[i], icl.bi_zss) :
                /\ \A h \in Overlapping(icl.bis[i], icl.bi_zss) : k <= h
                /\ icl.bi_zss[k].zg < icl.bis[i].end_price
          /\ MarkerCount(icl.bis[i], "1sell") = 1

\* the markers named sell or buy that unit carries are as the rule gives
MarkersAsFlagged(unit, zss, sell, buy) ==
    /\ MarkerCount(unit, sell) + MarkerCount(unit, buy) <= 1
    /\ \A k \in 1..Len(unit.mmds) :
          unit.mmds[k].name \in {sell, buy}
            => /\ unit.mmds[k].name = SideName(unit, sell, buy)
               /\ unit.bcs # << >>
               /\ unit.bcs[1].zs # << >>
               /\ unit.mmds[k].zs = unit.bcs[1].zs
               /\ Beyond(unit, zss[unit.bcs[1].zs[1] + 1])

\* C7: a stroke carries first_sell (first_buy) only if it is an up (down)
\* stroke with a flag that has a related pivot and its end price is above
\* that pivot's zg (below its zd); the marker's pivot is the flag's pivot
\* and there is at most one first-type marker.  The same for segments with
\* second_sell / second_buy.
C7_MarkerOnlyIfLeaving ==
    /\ \A i \in 1..Len(icl.bis) : MarkersAsFlagged(icl.bis[i], icl.bi_zss, "1sell", "1buy")
    /\ \A i \in 1..Len(icl.xds) : MarkersAsFlagged(icl.xds[i], icl.xd_zss, "2sell", "2buy")

\* the call returned a stroke with a first-type marker, a segment with a
\* second-type marker, and a flagged stroke with a related pivot it has not
\* left, which carries no marker
C7_Witness ==
    /\ pc = "returned"
    /\ \E i \in 1..Len(icl.bis) :
          MarkerCount(icl.bis[i], "1sell") + MarkerCount(icl.bis[i], "1buy") = 1
    /\ \E i \in 1..Len(icl.xds) :
          MarkerCount(icl.xds[i], "2sell") + MarkerCount(icl.xds[i], "2buy") = 1
    /\ \E i \in 1..Len(icl.bis) :
          /\ icl.bis[i].bcs # << >>
          /\ icl.bis[i].bcs[1].zs # << >>
          /\ icl.bis[i].mmds = << >>

----------------------------------------------------------------------------
(* Construction and the two entry points: SpecEngine *)

\* the longest kline sequence handed to an entry point
MaxKlines == 51

\* the bars a stroke of Widen spans: the default least stroke
Leg == DefaultBiMinKline

\* lv with every step drawn out over leg bars, prices scaled by leg
Widen(lv, leg) ==
    [p \in 1..((Len(lv) - 1) * leg + 1) |->
       LET seg == (p - 1) \div leg
           off == (p - 1) % leg
       IN  IF seg + 1 = Len(lv) THEN leg * lv[seg + 1]
           ELSE leg * lv[seg + 1] + off * (lv[seg + 2] - lv[seg + 1])]

\* lv after as many copies of its first bar as make n bars
PadTo(lv, n) ==
    [k \in 1..Max2(n, Len(lv)) |->
       IF k <= n - Len(lv) THEN lv[1] ELSE lv[k - Max2(0, n - Len(lv))]]

\* dates in which every second bar repeats the date of the bar before it
Duplicated(n) == [k \in 1..n |-> (k - 1) - ((k - 1) % 2)]

\* the dates n - 1, ..., 1, 0
Decreasing(n) == [k \in 1..n |-> n - k]

\* the date columns drawn for n bars
DateSeqs(n) == {Increasing(n), Duplicated(n), Decreasing(n)}

\* the klines of lv with its FractalHist and every date column
DatedFrames(lv) ==
    {DataFrame(DatedRows(lv, FractalHist(lv), dates)) : dates \in DateSeqs(Len(lv))}

\* the klines of every prefix of the drawn-out rising zigzag, dated 0, 1, ...
PrefixFrames(n) ==
    {DataFrame(LevelRows(lv, FractalHist(lv))) : lv \in Prefixes(PadTo(Widen(RisingLevels, Leg), n))}

\* the klines of the scenarios, narrow and drawn out, of MinKlineCount - 1
\* to n bars, with every date column
ScenarioFrames(n) ==
    UNION {DatedFrames(PadTo(lv, m)) :
             lv \in {RisingLevels, PivotPairLevels, Widen(RisingLevels, Leg), Widen(FallingLevels, Leg)},
             m \in (MinKlineCount - 1)..n}

\* the config dicts drawn: empty, one key, and all three keys with
\* thresholds that may be 0 or -1
EngineOptions ==
    {<< >>, [zs_min_bi |-> 0]}
      \cup {Config(b, x, z) : b \in {0, 1}, x \in {-1, 1}, z \in {-1, 0, DefaultZsMinBi}}

\* the keyword arguments of EngineConfig drawn
EngineArgs ==
    {[options |-> o, bi_min_kline |-> t[1], xd_min_bi |-> t[2], zs_min_bi |-> t[3]] :
        o \in EngineOptions \cup {None},
        t \in {<<DefaultBiMinKline, DefaultXdMinBi, DefaultZsMinBi>>, <<0, -1, 0>>}}

\* nothing is constructed yet; a caller is about to construct an engine and
\* analyse klines, or to construct a SimpleICL and process a frame
InitEngine ==
    /\ engine = NoEngine
    /\ icl = NoICL
    /\ \E d \in PrefixFrames(MaxKlines) \cup ScenarioFrames(MaxKlines) :
          \/ \E a \in EngineArgs : call = [api |-> "analyze_klines", config |-> a, df |-> d]
          \/ \E o \in EngineOptions : call = [api |-> "process_klines", config |-> o, df |-> d]
    /\ pc = "new"
    /\ error = ""
    /\ stages = << >>

NextEngine == ConstructEngine \/ ConstructICL \/ AnalyzeKlines \/ ProcessKlines

SpecEngine == InitEngine /\ [][NextEngine]_vars

\* the call has ended: it returned or it raised
Ended == pc \in {"returned", "raised"}

\* C8: ChanlunEngine.analyze_klines called with fewer than 50 bars (or
\* none) raises an input error before any pipeline stage runs, and no
\* result object is produced.
C8_TooFewKlinesRaise ==
    (call.api = "analyze_klines" /\ Len(call.df.rows) < 50 /\ Ended)
      => /\ pc = "raised"
         /\ error = "ValueError"
         /\ stages = << >>
         /\ icl = NoICL

\* analyze_klines has raised on 49 klines, under thresholds that let a
\* call on 50 klines return
C8_Witness ==
    /\ pc = "raised"
    /\ call.api = "analyze_klines"
    /\ Len(call.df.rows) = 49
    /\ engine.options = Config(1, 1, DefaultZsMinBi)

\* the dates of the rows increase strictly
StrictlyIncreasing(rows) ==
    \A k \in 1..(Len(rows) - 1) : rows[k].date < rows[k + 1].date

\* C9: a bar sequence of sufficient length whose timestamps are not
\* strictly increasing is rejected with an error, not analysed.
C9_UnorderedRejected ==
    (Len(call.df.rows) >= 50 /\ ~StrictlyIncreasing(call.df.rows) /\ Ended)
      => pc = "raised" /\ stages = << >>

\* the thresholds a dict names, all of them positive
PositiveOptions(options) ==
    \A key \in DOMAIN options \cap {"bi_min_kline", "xd_min_bi", "zs_min_bi"} :
        options[key] >= 1

\* the caller asks for no threshold that is zero or negative
PositiveRequest ==
    IF call.api = "analyze_klines"
      THEN /\ call.config.bi_min_kline >= 1
           /\ call.config.xd_min_bi >= 1
           /\ call.config.zs_min_bi >= 1
           /\ (call.config.options # None => PositiveOptions(call.config.options))
      ELSE PositiveOptions(call.config)

\* C10: constructing the engine with a threshold that is zero or negative
\* fails at construction time, so no object is made and no pipeline stage
\* ever runs with a non-positive threshold.
C10_NonPositiveRejected ==
    ~PositiveRequest => ~engine.made /\ ~icl.made /\ stages = << >>

\* C10, the last part alone: no pipeline stage runs under a non-positive
\* threshold
C10_NoStageUnderNonPositive ==
    ~PositiveRequest => stages = << >>

----------------------------------------------------------------------------
(* Missing fields, on a fresh object and on one that holds results: SpecFields *)

\* the column sets drawn: every key, every key but one, and none
FieldColumns == {KlineKeys, {}} \cup {KlineKeys \ {key} : key \in KlineKeys}

\* the row lists drawn: none, two short zigzags and one of MinKlineCount bars
FieldRows ==
    {<< >>,
     LevelRows(RisingLevels, FractalHist(RisingLevels)),
     LevelRows(PivotPairLevels, FractalHist(PivotPairLevels)),
     LevelRows(PadTo(FallingLevels, MinKlineCount),
               FractalHist(PadTo(FallingLevels, MinKlineCount)))}

\* the frames drawn: every row list under every column set
FieldFrames == {[columns |-> c, rows |-> r] : c \in FieldColumns, r \in FieldRows}

\* the caller, after a call has ended, makes the same call on the same
\* object with another frame
NextCall ==
    /\ pc \in {"returned", "raised"}
    /\ \E d \in FieldFrames : call' = [call EXCEPT !.df = d]
    /\ pc' = "ready"
    /\ error' = ""
    /\ stages' = << >>
    /\ UNCHANGED <<engine, icl>>

InitFields ==
    /\ engine = NoEngine
    /\ icl = NoICL
    /\ \E d \in FieldFrames :
          \/ call = [api |-> "analyze_klines",
                     config |-> [options |-> Config(1, 1, DefaultZsMinBi),
                                 bi_min_kline |-> DefaultBiMinKline,
                                 xd_min_bi |-> DefaultXdMinBi,
                                 zs_min_bi |-> DefaultZsMinBi],
                     df |-> d]
          \/ \E o \in {<< >>, Config(1, 1, DefaultZsMinBi)} :
                call = [api |-> "process_klines", config |-> o, df |-> d]
    /\ pc = "new"
    /\ error = ""
    /\ stages = << >>

NextFields == ConstructEngine \/ ConstructICL \/ AnalyzeKlines \/ ProcessKlines \/ NextCall

SpecFields == InitFields /\ [][NextFields]_vars

\* the fields the claim requires of the bar input
RequiredFields == {"open", "high", "low", "close", "date"}

\* a call is about to run on a frame that lacks a required field
MissingFieldCall == pc = "ready" /\ ~(RequiredFields \subseteq call.df.columns)

\* the call fails before any stage and leaves the lists of the object as
\* they were
FailsUntouched ==
    /\ pc' = "raised"
    /\ error' \in {"ValueError", "KeyError"}
    /\ stages' = << >>
    /\ icl' = icl

\* C11: if the bar input lacks any of the required fields (open, high, low,
\* close, timestamp), process_klines / analyze_klines fails with an error
\* before any stage executes, and the stroke, segment and pivot lists of the
\* object are exactly what they were before the call.
C11_MissingFieldFails == [][MissingFieldCall => FailsUntouched]_vars

\* C11 for frames that hold at least one bar: the call fails before any
\* stage and the lists are what they were
C11_NonEmptyMissingFieldFails ==
    [][(MissingFieldCall /\ call.df.rows # << >>) => FailsUntouched]_vars

\* C11, the last part alone: whatever the rows, a call on a frame that
\* lacks a required field runs no stage and leaves the lists as they were
C11_NeverPartial ==
    [][MissingFieldCall => (stages' = << >> /\ icl' = icl)]_vars

\* process_klines has raised on a frame with bars and without a required
\* field, on an object that holds the strokes and the pivot of an earlier call
C11_Witness ==
    /\ pc = "raised"
    /\ call.api = "process_klines"
    /\ ~(RequiredFields \subseteq call.df.columns)
    /\ call.df.rows # << >>
    /\ stages = << >>
    /\ icl.made
    /\ icl.bis # << >>
    /\ icl.bi_zss # << >>

----------------------------------------------------------------------------
(* The pipeline under every positive threshold triple: SpecTotal *)

\* the longest bar sequence drawn exhaustively under every threshold triple
MaxTotalBars == 6

\* every threshold triple over 1..MaxThreshold
TotalConfigs ==
    {Config(b, x, z) : b \in 1..MaxThreshold, x \in 1..MaxThreshold, z \in 1..MaxThreshold}

InitTotal ==
    \/ InitProcess(TotalConfigs, BiFrames(SeqsUpTo(0..MaxLevel, MaxTotalBars)))
    \/ \E lv \in {RisingLevels, PivotPairLevels} :
          InitProcess(TotalConfigs, PerturbedFrames(lv))

SpecTotal == InitTotal /\ [][NextICL]_vars

\* the seven stages of process_klines, in the order they run
AllStages == <<"fx", "bi", "xd", "strengths", "bi_zs", "xd_zs", "mmds">>

\* the run scan of the segment builder ends past the stroke it starts from
XdAdvances(bis) ==
    \A i \in 0..(Len(bis) - 1) : XdRunEnd(bis, bis[i + 1].type, i + 1) > i

\* the extension scan of a pivot window ends past the whole window
ZsAdvances(items, zs_min_bi) ==
    \A i \in 0..(Len(items) - zs_min_bi) :
        LET group == PySlice(items, i, i + zs_min_bi)
        IN  ZsExtend(items, i + zs_min_bi,
                     Min(RangeHighs(group)), Max(RangeLows(group))) >= i + zs_min_bi

\* the inner scan of the third-type pass ends at or past where it starts
\* and within the list
Class3Advances(xds) ==
    \A j \in 0..Len(xds) : \A type \in {"up", "down"} :
        NextOfType(xds, type, j) >= j /\ NextOfType(xds, type, j) <= Len(xds)

\* a call on a frame with bars and every column has ended
ValidCallEnded == Ended /\ call.df.rows # << >> /\ RequiredCols \subseteq call.df.columns

\* the call returned after all seven stages and every scan advances
ReturnsAndAdvances ==
    /\ pc = "returned"
    /\ error = ""
    /\ stages = AllStages
    /\ XdAdvances(icl.bis)
    /\ ZsAdvances(icl.bis, icl.zs_min_bi)
    /\ ZsAdvances(icl.xds, icl.zs_min_bi)
    /\ Class3Advances(icl.xds)

\* C12 as stated: for every validated bar sequence and every threshold
\* triple >= 1 the pipeline returns normally, every scanning loop strictly
\* advances, and a stage that yields an empty list makes all later stages
\* yield empty lists (segments are a stage before the pivots of both levels).
C12_AllLaterStagesEmpty ==
    ValidCallEnded =>
      /\ ReturnsAndAdvances
      /\ (_calculate_fx(call.df.rows) = << >>
            => icl.bis = << >> /\ icl.xds = << >>
               /\ icl.bi_zss = << >> /\ icl.xd_zss = << >>)
      /\ (icl.bis = << >> => icl.xds = << >> /\ icl.bi_zss = << >> /\ icl.xd_zss = << >>)
      /\ (icl.xds = << >> => icl.bi_zss = << >> /\ icl.xd_zss = << >>)

\* C12, amended: the pipeline returns normally, every scanning loop strictly
\* advances, and an empty list makes every later stage that consumes it
\* yield an empty list: no fractals, no strokes; no strokes, no segments and
\* no stroke-level pivots; no segments, no segment-level pivots.
C12_PipelineTotal ==
    ValidCallEnded =>
      /\ ReturnsAndAdvances
      /\ (_calculate_fx(call.df.rows) = << >>
            => icl.bis = << >> /\ icl.xds = << >>
               /\ icl.bi_zss = << >> /\ icl.xd_zss = << >>)
      /\ (icl.bis = << >> => icl.xds = << >> /\ icl.bi_zss = << >> /\ icl.xd_zss = << >>)
      /\ (icl.xds = << >> => icl.xd_zss = << >>)

\* process_klines has returned with strokes and a stroke pivot but no
\* segment, under a triple whose least thresholds are 2 or more
C12_Witness ==
    /\ pc = "returned"
    /\ stages = AllStages
    /\ icl.bi_min_kline >= 2 /\ icl.xd_min_bi >= 2 /\ icl.zs_min_bi >= 2
    /\ icl.bis # << >>
    /\ icl.xds = << >>
    /\ icl.bi_zss # << >>
    /\ icl.xd_zss = << >>

----------------------------------------------------------------------------
(* Fractals of bars whose high and low differ: SpecFx *)

\* the longest bar sequence drawn exhaustively over the price ranges
MaxRangeBars == 5

\* the price ranges <<low, high>> over 0..MaxLevel
PriceRanges == {r \in (0..MaxLevel) \X (0..MaxLevel) : r[1] <= r[2]}

\* the bars with the price ranges rs, dated 0, 1, ..., with a constant close
RangeRows(rs) ==
    [k \in 1..Len(rs) |-> [date |-> k - 1, high |-> rs[k][2], low |-> rs[k][1], macd |-> 0]]

InitFx ==
    \E rs \in SeqsUpTo(PriceRanges, MaxRangeBars) :
        InitProcess({Config(1, 1, DefaultZsMinBi)}, {DataFrame(RangeRows(rs))})

SpecFx == InitFx /\ [][NextICL]_vars

\* the peak rule on bar i (0-based, interior)
PeakRule(rows, i) ==
    /\ rows[i + 1].high > rows[i].high
    /\ rows[i + 1].high > rows[i + 2].high
    /\ rows[i + 1].low >= rows[i].low

\* the trough rule on bar i (0-based, interior)
TroughRule(rows, i) ==
    /\ rows[i + 1].low < rows[i].low
    /\ rows[i + 1].low < rows[i + 2].low
    /\ rows[i + 1].high <= rows[i].high

\* fx lists bars of rows as the two rules say
FractalsAsRuled(rows, fx) ==
    /\ \A i \in 0..(Len(rows) - 1) :
          Cardinality({k \in 1..Len(fx) : fx[k].index = i})
            = IF i >= 1 /\ i <= Len(rows) - 2 /\ (PeakRule(rows, i) \/ TroughRule(rows, i))
                THEN 1 ELSE 0
    /\ \A k \in 1..Len(fx) :
          /\ fx[k].index \in 1..(Len(rows) - 2)
          /\ fx[k].type \in {"ding", "di"}
          /\ fx[k].type = "ding"
               => PeakRule(rows, fx[k].index) /\ fx[k].price = rows[fx[k].index + 1].high
          /\ fx[k].type = "di"
               => TroughRule(rows, fx[k].index) /\ fx[k].price = rows[fx[k].index + 1].low
    /\ \A k \in 1..(Len(fx) - 1) : fx[k].index < fx[k + 1].index
    /\ \A i \in 1..(Len(rows) - 2) : ~(PeakRule(rows, i) /\ TroughRule(rows, i))

\* C13: the fractal list holds exactly one entry for each interior bar that
\* satisfies the peak rule or the trough rule and none for any other bar,
\* in strictly increasing bar index, a peak priced at the bar's high and a
\* trough at its low, and no bar is both a peak and a trough.
C13_FractalsExact ==
    (pc = "returned" /\ call.df.rows # << >>)
      => FractalsAsRuled(call.df.rows, _calculate_fx(call.df.rows))

\* the fractal stage has run on bars among which one is a peak and another
\* has the highest high of its neighbours but a lower low than the bar
\* before it, and is no fractal
C13_Witness ==
    /\ pc = "returned"
    /\ "fx" \in {stages[k] : k \in 1..Len(stages)}
    /\ LET rows == call.df.rows
           fx == _calculate_fx(rows)
       IN  /\ \E k \in 1..Len(fx) : fx[k].type = "ding"
           /\ \E i \in 1..(Len(rows) - 2) :
                 /\ rows[i + 1].high > rows[i].high
                 /\ rows[i + 1].high > rows[i + 2].high
                 /\ rows[i + 1].low < rows[i].low
                 /\ \A k \in 1..Len(fx) : fx[k].index # i

----------------------------------------------------------------------------
(* Rising bars: SpecRising *)

\* the longest bar sequence drawn exhaustively over the steps
MaxRisingBars == 7

\* the steps from the low of one bar to the low of the next
Steps == {-1, 1, 2}

\* the bars of width w whose lows start at 0 and move by steps, dated 0, 1, ...
RECURSIVE StepLows(_, _)
StepLows(steps, k) == IF k = 0 THEN 0 ELSE StepLows(steps, k - 1) + steps[k]

StepRows(steps, w) ==
    [k \in 1..(Len(steps) + 1) |->
       [date |-> k - 1, low |-> StepLows(steps, k - 1),
        high |-> StepLows(steps, k - 1) + w, macd |-> 0]]

\* a / b rounded to the nearest integer, b > 0
RoundDiv(a, b) == (2 * a + b) \div (2 * b)

RECURSIVE EwmFrom(_, _, _)
\* the values a series.ewm(span, adjust=False).mean() appends to acc:
\* e[0] = x[0] and e[t] = e[t - 1] + 2 / (span + 1) * (x[t] - e[t - 1]),
\* in fixed point
EwmFrom(x, span, acc) ==
    IF Len(acc) = Len(x) THEN acc
    ELSE IF acc = << >> THEN EwmFrom(x, span, <<x[1]>>)
    ELSE EwmFrom(x, span,
                 Append(acc, acc[Len(acc)]
                               + RoundDiv(2 * (x[Len(acc) + 1] - acc[Len(acc)]), span + 1)))

\* series.ewm(span=span, adjust=False).mean()
EwmMean(x, span) == EwmFrom(x, span, << >>)

\* the spans of the two averages of the close and of the average of dif
EmaShortSpan == 12

EmaLongSpan == 26

DeaSpan == 9

\* ema_short - ema_long
MacdDif(close) ==
    LET ema_short == EwmMean(close, EmaShortSpan)
        ema_long == EwmMean(close, EmaLongSpan)
    IN  [k \in 1..Len(close) |-> ema_short[k] - ema_long[k]]

\* macd_hist = (dif - dea) * 2 of a close column
MacdHist(close) ==
    LET dif == MacdDif(close)
        dea == EwmMean(dif, DeaSpan)
    IN  [k \in 1..Len(close) |-> (dif[k] - dea[k]) * 2]

\* the number of klines test_chanlun_engine builds
TestKlineCount == 100

\* the close column of test_chanlun_engine, 100.2 + 0.1 * i, in units of
\* 10^-7
TestClose(n) == [k \in 1..n |-> 1002000000 + 1000000 * (k - 1)]

\* the klines of test_chanlun_engine with prices in tenths: n bars, low
\* 995 + i, high 1005 + i, and the histogram of their close column in units
\* of 10^-7: 0 at the first bar, above 0 at every later one
TestKlines(n) ==
    LET hist == MacdHist(TestClose(n))
    IN  [k \in 1..n |->
           [date |-> k - 1, low |-> 995 + (k - 1), high |-> 1005 + (k - 1),
            macd |-> hist[k]]]

\* the keyword arguments of EngineConfig in test_chanlun_engine
TestEngineArgs ==
    [options |-> << >>, bi_min_kline |-> DefaultBiMinKline,
     xd_min_bi |-> DefaultXdMinBi, zs_min_bi |-> DefaultZsMinBi]

InitRising ==
    /\ engine = NoEngine
    /\ icl = NoICL
    /\ \/ \E n \in ((MinKlineCount - 1)..MaxKlines) \cup {TestKlineCount} :
             call = [api |-> "analyze_klines", config |-> TestEngineArgs,
                     df |-> DataFrame(TestKlines(n))]
       \/ \E steps \in SeqsUpTo(Steps, MaxRisingBars - 1) : \E w \in {0, 2} :
          \E o \in {<< >>, Config(1, 1, 1)} :
             call = [api |-> "process_klines", config |-> o,
                     df |-> DataFrame(StepRows(steps, w))]
    /\ pc = "new"
    /\ error = ""
    /\ stages = << >>

SpecRising == InitRising /\ [][NextEngine]_vars

\* highs and lows both rise strictly from bar to bar
StrictlyRising(rows) ==
    \A k \in 1..(Len(rows) - 1) :
        rows[k].high < rows[k + 1].high /\ rows[k].low < rows[k + 1].low

\* the object holds no stroke, segment or pivot, and so no flag and no marker
NothingFound ==
    /\ icl.bis = << >>
    /\ icl.xds = << >>
    /\ icl.bi_zss = << >>
    /\ icl.xd_zss = << >>

\* C14: a bar sequence whose highs and lows are both strictly increasing
\* from bar to bar yields zero fractals and zero strokes, and therefore
\* zero segments, zero pivots, zero divergence flags and zero markers.
C14_RisingYieldsNothing ==
    (Ended /\ StrictlyRising(call.df.rows))
      => _calculate_fx(call.df.rows) = << >> /\ NothingFound

\* analyze_klines has run all stages on the rising klines of
\* test_chanlun_engine, whose histogram is above 0 after the first bar
C14_Witness ==
    /\ pc = "returned"
    /\ call.api = "analyze_klines"
    /\ Len(call.df.rows) = TestKlineCount
    /\ StrictlyRising(call.df.rows)
    /\ call.df.rows[1].macd = 0
    /\ \A k \in 2..Len(call.df.rows) : call.df.rows[k].macd > 0
    /\ stages = AllStages
    /\ icl.made

----------------------------------------------------------------------------
(* The stroke builder against its rule: SpecBi *)

\* the direction a pair of fractals gives: up from a trough to a peak, down
\* from a peak to a trough, none for two of a kind
PairDirection(f, g) ==
    IF f.type = "di" /\ g.type = "ding" THEN "up"
    ELSE IF f.type = "ding" /\ g.type = "di" THEN "down"
    ELSE "none"

RECURSIVE AcceptedPairs(_, _, _, _, _)
\* the pairs (f[p], f[p + 1]), p from i on, that the rule accepts when the
\* most recently accepted stroke has direction last ("none" before the
\* first): acc followed by their positions p
AcceptedPairs(f, min_bars, i, last, acc) ==
    IF i > Len(f) - 1 THEN acc
    ELSE LET direction == PairDirection(f[i], f[i + 1])
         IN  IF /\ f[i + 1].index - f[i].index >= min_bars
                /\ direction # "none"
                /\ direction # last
               THEN AcceptedPairs(f, min_bars, i + 1, direction, Append(acc, i))
               ELSE AcceptedPairs(f, min_bars, i + 1, last, acc)

\* bis is the stroke list the rule gives for the fractals f
StrokesAsRuled(f, min_bars, bis) ==
    LET pairs == AcceptedPairs(f, min_bars, 1, "none", << >>)
    IN  /\ Len(bis) = Len(pairs)
        /\ \A k \in 1..Len(pairs) :
              LET a == f[pairs[k]]
                  b == f[pairs[k] + 1]
              IN  /\ bis[k].type = PairDirection(a, b)
                  /\ bis[k].index = k - 1
                  /\ bis[k].start_price = a.price /\ bis[k].end_price = b.price
                  /\ bis[k].start_index = a.index /\ bis[k].end_index = b.index
                  /\ bis[k].start_time = a.time /\ bis[k].end_time = b.time
                  /\ bis[k].type = "up" => a.type = "di" /\ b.type = "ding"
                  /\ bis[k].type = "down" => a.type = "ding" /\ b.type = "di"
        /\ (Len(f) < 2 => bis = << >>)

\* C15: the stroke builder walks consecutive fractal pairs in order and
\* accepts a pair if and only if the bar distance is >= min_bars_per_stroke,
\* the two fractals are of different kinds and the direction differs from
\* the most recently accepted stroke's; trough-to-peak gives an up stroke
\* from the trough price to the peak price, peak-to-trough a down stroke;
\* fewer than 2 fractals give an empty stroke list without error.
C15_StrokesAsRuled ==
    (pc = "returned" /\ call.df.rows # << >>)
      => StrokesAsRuled(_calculate_fx(call.df.rows), icl.bi_min_kline, icl.bis)

\* the stroke builder has accepted two pairs or more, skipped a pair of too
\* few bars and skipped a pair of enough bars and of two kinds, which had
\* the direction of the stroke before
C15_Witness ==
    /\ pc = "returned"
    /\ Len(icl.bis) >= 2
    /\ LET f == _calculate_fx(call.df.rows)
       IN  /\ \E i \in 1..(Len(f) - 1) : f[i + 1].index - f[i].index < icl.bi_min_kline
           /\ \E i \in 1..(Len(f) - 1) :
                 /\ f[i + 1].index - f[i].index >= icl.bi_min_kline
                 /\ PairDirection(f[i], f[i + 1]) # "none"
                 /\ \A k \in 1..Len(icl.bis) : icl.bis[k].start_index # f[i].index

----------------------------------------------------------------------------
(* The segment builder on any stroke list: SpecXd *)

\* the longest stroke list drawn
MaxStrokes == 6

\* the signed price moves of a stroke: up by 1 or 2, down by 1 or 2
StrokeMoves == {-2, -1, 1, 2}

RECURSIVE MovePrice(_, _)
\* the price after the first k moves, from 10
MovePrice(moves, k) == IF k = 0 THEN 10 ELSE MovePrice(moves, k - 1) + moves[k]

\* the stroke list whose k-th stroke makes the k-th move over two bars,
\* each stroke starting where the one before it ends
MoveStrokes(moves) ==
    [k \in 1..Len(moves) |->
       SimpleBi(k - 1, IF moves[k] > 0 THEN "up" ELSE "down",
                2 * (k - 1), 2 * k,
                MovePrice(moves, k - 1), MovePrice(moves, k),
                2 * (k - 1), 2 * k)]

\* a caller is about to run self._xds = self._calculate_xd(bis) on an
\* object constructed with config
InitXd ==
    /\ engine = NoEngine
    /\ \E x \in 1..MaxThreshold : \E moves \in SeqsUpTo(StrokeMoves, MaxStrokes) :
          /\ call = [api |-> "_calculate_xd",
                     config |-> Config(1, x, DefaultZsMinBi),
                     df |-> MoveStrokes(moves)]
          /\ icl = SimpleICL(Config(1, x, DefaultZsMinBi))
    /\ pc = "ready"
    /\ error = ""
    /\ stages = << >>

\* self._xds = self._calculate_xd(bis), bis being the list in call.df
CalculateXd ==
    /\ pc = "ready"
    /\ call.api = "_calculate_xd"
    /\ icl' = [icl EXCEPT !.xds = _calculate_xd(call.df, icl.xd_min_bi)]
    /\ stages' = <<"xd">>
    /\ pc' = "returned"
    /\ UNCHANGED <<engine, call, error>>

NextXd == CalculateXd

SpecXd == InitXd /\ [][NextXd]_vars

\* strokes a..b (0-based) of bis are a maximal run of one direction
MaximalRun(bis, a, b) ==
    /\ a <= b
    /\ \A k \in a..b : bis[k + 1].type = bis[a + 1].type
    /\ (a = 0 \/ bis[a].type # bis[a + 1].type)
    /\ (b = Len(bis) - 1 \/ bis[b + 2].type # bis[b + 1].type)

\* the maximal runs of bis of min_strokes strokes or more
QualifyingRuns(bis, min_strokes) ==
    {r \in (0..(Len(bis) - 1)) \X (0..(Len(bis) - 1)) :
        MaximalRun(bis, r[1], r[2]) /\ r[2] - r[1] + 1 >= min_strokes}

\* xds is one segment for each qualifying run of bis, in order
SegmentsAsRuled(bis, min_strokes, xds) ==
    /\ Len(xds) = Cardinality(QualifyingRuns(bis, min_strokes))
    /\ \A r \in QualifyingRuns(bis, min_strokes) :
          \E k \in 1..Len(xds) :
             xds[k].start_bi_index = r[1] /\ xds[k].end_bi_index = r[2]
    /\ \A k \in 1..Len(xds) :
          /\ <<xds[k].start_bi_index, xds[k].end_bi_index>> \in QualifyingRuns(bis, min_strokes)
          /\ xds[k].index = k - 1
          /\ xds[k].type = bis[xds[k].start_bi_index + 1].type
          /\ xds[k].start_price = bis[xds[k].start_bi_index + 1].start_price
          /\ xds[k].end_price = bis[xds[k].end_bi_index + 1].end_price
    /\ \A k \in 1..(Len(xds) - 1) : xds[k].end_bi_index < xds[k + 1].start_bi_index

\* C16: for any stroke list, the segment builder emits exactly one segment
\* for each maximal run of consecutive same-direction strokes of length
\* >= min_strokes_per_segment and none for shorter runs; a segment has its
\* first stroke's direction and start price and its last stroke's end price;
\* the stroke-index ranges of successive segments are disjoint and increasing.
C16_SegmentsAsRuled ==
    (pc = "returned" /\ call.api = "_calculate_xd")
      => SegmentsAsRuled(call.df, icl.xd_min_bi, icl.xds)

\* the segment builder has emitted two segments or more, one of them for a
\* run of three strokes, and has passed over a run that was too short
C16_Witness ==
    /\ pc = "returned"
    /\ call.api = "_calculate_xd"
    /\ icl.xd_min_bi >= 2
    /\ Len(icl.xds) >= 2
    /\ \E k \in 1..Len(icl.xds) : icl.xds[k].end_bi_index - icl.xds[k].start_bi_index = 2
    /\ \E a \in 0..(Len(call.df) - 1) : \E b \in 0..(Len(call.df) - 1) :
          MaximalRun(call.df, a, b) /\ b - a + 1 < icl.xd_min_bi

----------------------------------------------------------------------------
(* Pivots against their members: SpecTotal *)

\* the low and the high of a unit's price range
UnitLow(u) == IF u.start_price <= u.end_price THEN u.start_price ELSE u.end_price

UnitHigh(u) == IF u.start_price >= u.end_price THEN u.start_price ELSE u.end_price

\* the positions (1-based) of the units that lie within the pivot's time range
MemberSet(units, zs) ==
    {k \in 1..Len(units) :
        units[k].start_time >= zs.start_time /\ units[k].end_time <= zs.end_time}

\* the least and the greatest of a non-empty set of integers
Least(S) == CHOOSE x \in S : \A y \in S : x <= y

Greatest(S) == CHOOSE x \in S : \A y \in S : x >= y

\* zs has zg and zd from the first three of its members and gg and dd from
\* all of them
PivotFromMembers(units, zs) ==
    LET members == MemberSet(units, zs)
        first == Least(members)
        three == first..(first + 2)
    IN  /\ three \subseteq members
        /\ zs.zg = Least({UnitHigh(units[k]) : k \in three})
        /\ zs.zd = Greatest({UnitLow(units[k]) : k \in three})
        /\ zs.gg = Greatest({UnitHigh(units[k]) : k \in members})
        /\ zs.dd = Least({UnitLow(units[k]) : k \in members})

\* the first three units exist and their price ranges overlap
FirstThreeOverlap(units) ==
    /\ Len(units) >= 3
    /\ Greatest({UnitLow(units[k]) : k \in 1..3}) < Least({UnitHigh(units[k]) : k \in 1..3})

\* what C17 says of one unit list and its pivot list
PivotsAsDefined(units, zss) ==
    /\ FirstThreeOverlap(units) => zss # << >>
    /\ \A k \in 1..Len(zss) : PivotFromMembers(units, zss[k])

\* C17: with min_units_per_pivot = 3, whenever the first three units of a
\* unit list have overlapping price ranges the pivot detector emits at least
\* one pivot, and every emitted pivot has zg = the least range-high and
\* zd = the greatest range-low of exactly its first three members, and gg
\* and dd the greatest high and the least low over all of its members.
C17_PivotsAsDefined ==
    (pc = "returned" /\ icl.zs_min_bi = 3)
      => PivotsAsDefined(icl.bis, icl.bi_zss) /\ PivotsAsDefined(icl.xds, icl.xd_zss)

\* a stroke pivot of four members or more whose first three overlap in a
\* wider range than all of its members do
C17_Witness ==
    /\ pc = "returned"
    /\ icl.zs_min_bi = 3
    /\ FirstThreeOverlap(icl.bis)
    /\ \E k \in 1..Len(icl.bi_zss) :
          LET members == MemberSet(icl.bis, icl.bi_zss[k])
          IN  /\ Cardinality(members) >= 4
              /\ \/ Least({UnitHigh(icl.bis[m]) : m \in members}) < icl.bi_zss[k].zg
                 \/ Greatest({UnitLow(icl.bis[m]) : m \in members}) > icl.bi_zss[k].zd

\* the pivots zss consume runs of consecutive units, one after the other
PivotsInOrder(units, zss, min_units) ==
    /\ \A k \in 1..Len(zss) :
          LET members == MemberSet(units, zss[k])
          IN  /\ members # {}
              /\ members = Least(members)..Greatest(members)
              /\ Cardinality(members) >= min_units
              /\ zss[k].index = k - 1
              /\ zss[k].start_time = units[Least(members)].start_time
              /\ zss[k].end_time = units[Greatest(members)].end_time
    /\ \A k \in 1..(Len(zss) - 1) :
          /\ Greatest(MemberSet(units, zss[k])) < Least(MemberSet(units, zss[k + 1]))
          /\ zss[k].end_time <= zss[k + 1].start_time

\* C18: pivots of one level are non-overlapping and in unit-index order:
\* the runs of consecutive units consumed by successive pivots are pairwise
\* disjoint and strictly increasing, each run has at least
\* min_units_per_pivot members, and each pivot's start_time / end_time are
\* its first member's start time and last member's end time, so a pivot's
\* time range ends no later than the next pivot's begins.
C18_PivotsInOrder ==
    pc = "returned"
      => /\ PivotsInOrder(icl.bis, icl.bi_zss, icl.zs_min_bi)
         /\ PivotsInOrder(icl.xds, icl.xd_zss, icl.zs_min_bi)

\* two stroke pivots, the first of more members than the threshold asks
\* for, the second beginning at the time the first ends
C18_Witness ==
    /\ pc = "returned"
    /\ icl.zs_min_bi >= 2
    /\ Len(icl.bi_zss) >= 2
    /\ Cardinality(MemberSet(icl.bis, icl.bi_zss[1])) > icl.zs_min_bi
    /\ icl.bi_zss[1].end_time = icl.bi_zss[2].start_time

----------------------------------------------------------------------------
(* Strengths against the histogram: SpecBc *)

RECURSIVE SignedPart(_, _, _, _)
\* the sum over bars a..b (0-based) of the histogram values of the given
\* sign, taken in absolute value
SignedPart(rows, a, b, sign) ==
    IF a > b THEN 0
    ELSE (IF sign * rows[b + 1].macd > 0 THEN sign * rows[b + 1].macd ELSE 0)
           + SignedPart(rows, a, b - 1, sign)

RECURSIVE MemberStrength(_, _, _)
\* the sum of the strengths of strokes a..b (0-based)
MemberStrength(bis, a, b) ==
    IF a > b THEN 0 ELSE bis[b + 1].strength + MemberStrength(bis, a, b - 1)

\* C19: every up stroke's strength is the sum of the positive histogram
\* values over bars start_bar_index..end_bar_index inclusive, every down
\* stroke's the sum of the absolute values of the negative ones over that
\* range, every segment's the sum of the strengths of its member strokes,
\* and every strength is >= 0.
C19_StrengthsFromHistogram ==
    pc = "returned"
      => /\ \A k \in 1..Len(icl.bis) :
               /\ icl.bis[k].strength
                    = SignedPart(call.df.rows, icl.bis[k].start_index, icl.bis[k].end_index,
                                 IF icl.bis[k].type = "up" THEN 1 ELSE -1)
               /\ icl.bis[k].strength >= 0
         /\ \A k \in 1..Len(icl.xds) :
               /\ icl.xds[k].strength
                    = MemberStrength(icl.bis, icl.xds[k].start_bi_index,
                                     icl.xds[k].end_bi_index)
               /\ icl.xds[k].strength >= 0

\* an up stroke and a down stroke of positive strength, each over bars that
\* hold histogram values of both signs, and a segment of positive strength
C19_Witness ==
    /\ pc = "returned"
    /\ \A type \in {"up", "down"} :
          \E k \in 1..Len(icl.bis) :
             /\ icl.bis[k].type = type
             /\ icl.bis[k].strength > 0
             /\ SignedPart(call.df.rows, icl.bis[k].start_index, icl.bis[k].end_index, 1) > 0
             /\ SignedPart(call.df.rows, icl.bis[k].start_index, icl.bis[k].end_index, -1) > 0
    /\ \E k \in 1..Len(icl.xds) : icl.xds[k].strength > 0

----------------------------------------------------------------------------
(* Third-type markers of the segment level: SpecClass3 *)

\* three strokes that make a pivot over (1, 3), a stroke apart from it above,
\* a return into the pivot, an up stroke out of it from 2 to 4 and a down
\* stroke that stays above it
ThirdBuyLevels == <<1, 0, 3, 1, 3, 2, 2, 5, 4, 5, 2, 4, 3, 4>>

\* the mirror image of ThirdBuyLevels
ThirdSellLevels == <<4, 5, 2, 4, 2, 3, 3, 0, 1, 0, 3, 1, 2, 1>>

\* the frames of lv and its variations in one or two places
TwicePerturbedFrames(lv) ==
    UNION {PerturbedFrames(v) : v \in Perturb(lv, 0..(MaxLevel + 3))}

\* strokes of one bar or more, every stroke a segment, every pivot threshold
Class3Configs == {Config(1, 1, z) : z \in 1..MaxThreshold}

InitClass3 ==
    \E lv \in {ThirdBuyLevels, ThirdSellLevels} :
        InitProcess(Class3Configs, TwicePerturbedFrames(lv))

SpecClass3 == InitClass3 /\ [][NextICL]_vars

\* the third-type markers: (segment position, marker position) pairs
ThirdMarkers ==
    {km \in UNION {{k} \X (1..Len(icl.xds[k].mmds)) : k \in 1..Len(icl.xds)} :
        icl.xds[km[1]].mmds[km[2]].name \in {"3buy", "3sell"}}

\* segment b (1-based) leaves pivot zs upwards after its last contained segment
BreaksUp(b, zs) ==
    /\ b > Greatest(MemberSet(icl.xds, zs))
    /\ icl.xds[b].type = "up"
    /\ zs.zd < icl.xds[b].start_price
    /\ icl.xds[b].start_price < zs.zg
    /\ UnitHigh(icl.xds[b]) > zs.zg

\* segment b (1-based) leaves pivot zs downwards after its last contained segment
BreaksDown(b, zs) ==
    /\ b > Greatest(MemberSet(icl.xds, zs))
    /\ icl.xds[b].type = "down"
    /\ zs.zd < icl.xds[b].start_price
    /\ icl.xds[b].start_price < zs.zg
    /\ UnitLow(icl.xds[b]) < zs.zd

\* segment k is the first segment of the given type after segment b
FirstAfter(k, b, type) ==
    /\ b < k
    /\ icl.xds[k].type = type
    /\ \A t \in (b + 1)..(k - 1) : icl.xds[t].type # type

\* the marker at km is where the claim allows it
ThirdMarkerAsRuled(km) ==
    LET xd == icl.xds[km[1]]
        mmd == xd.mmds[km[2]]
        zs == icl.xd_zss[mmd.zs[1] + 1]
    IN  /\ mmd.zs # << >>
        /\ MemberSet(icl.xds, zs) # {}
        /\ IF mmd.name = "3buy"
             THEN /\ xd.type = "down"
                  /\ UnitLow(xd) > zs.zd
                  /\ \E b \in 1..Len(icl.xds) : BreaksUp(b, zs) /\ FirstAfter(km[1], b, "down")
             ELSE /\ xd.type = "up"
                  /\ UnitHigh(xd) < zs.zg
                  /\ \E b \in 1..Len(icl.xds) : BreaksDown(b, zs) /\ FirstAfter(km[1], b, "up")

\* C20: a segment carries a 3buy marker of segment-level pivot P only if it
\* is a down segment with its low above P.zd and the first down segment after
\* an up segment that follows the last segment within P's time range, starts
\* strictly inside (P.zd, P.zg) and has its high above P.zg; a 3sell marker
\* only in the mirrored case; no pivot has two third-type markers
C20_ThirdMarkersAsRuled ==
    pc = "returned" =>
      /\ \A km \in ThirdMarkers : ThirdMarkerAsRuled(km)
      /\ \A km \in ThirdMarkers : \A other \in ThirdMarkers :
            icl.xds[km[1]].mmds[km[2]].zs = icl.xds[other[1]].mmds[other[2]].zs
              => km = other

\* a returned call with a 3buy marker, while another segment-level pivot of
\* the same call has no third-type marker
C20_Witness ==
    /\ pc = "returned"
    /\ \E km \in ThirdMarkers : icl.xds[km[1]].mmds[km[2]].name = "3buy"
    /\ \E p \in 1..Len(icl.xd_zss) :
          \A km \in ThirdMarkers : icl.xds[km[1]].mmds[km[2]].zs # <<p - 1>>

----------------------------------------------------------------------------
(* The quasi pass of the segment level: SpecLike *)

\* ThirdBuyLevels with a wider way out of the pivot: the down segment from 6
\* to 3 gets the 3buy marker, and after it come an up segment from 3 to 6, a
\* down segment from 6 to 4 and an up segment from 4 to 5
QuasiBuyLevels == <<1, 0, 3, 1, 3, 2, 2, 5, 4, 5, 2, 6, 3, 6, 4, 5, 4>>

\* the mirror image of QuasiBuyLevels
QuasiSellLevels == <<5, 6, 3, 5, 3, 4, 4, 1, 2, 1, 4, 0, 3, 0, 2, 1, 2>>

\* the frames of SpecBc, where divergent segments get 2buy and 2sell, and the
\* two scenarios above with their variations in one bar
InitLike ==
    \/ InitBc
    \/ \E lv \in {QuasiBuyLevels, QuasiSellLevels} :
          InitProcess(Class3Configs, PerturbedFrames(lv))

SpecLike == InitLike /\ [][NextICL]_vars

\* the ranges of the two segments overlap, as the quasi pass tests it
RangesOverlap(xd, prev) ==
    Min2(UnitHigh(xd), UnitHigh(prev)) > Max2(UnitLow(xd), UnitLow(prev))

\* segment m (1-based) is a later segment of the direction of segment k that
\* overlaps it with a higher low
BuyFollower(k, m) ==
    /\ k < m
    /\ icl.xds[m].type = icl.xds[k].type
    /\ RangesOverlap(icl.xds[m], icl.xds[k])
    /\ UnitLow(icl.xds[m]) > UnitLow(icl.xds[k])

\* segment m (1-based) is a later segment of the direction of segment k that
\* overlaps it with a lower high
SellFollower(k, m) ==
    /\ k < m
    /\ icl.xds[m].type = icl.xds[k].type
    /\ RangesOverlap(icl.xds[m], icl.xds[k])
    /\ UnitHigh(icl.xds[m]) < UnitHigh(icl.xds[k])

\* C21: a later segment of the same direction as a segment that carries
\* 2buy (2sell, 3buy, 3sell), overlapping it with a higher low (lower high on
\* the sell side), carries class2buy (class2sell, class3buy, class3sell)
C21_QuasiFollows ==
    pc = "returned" =>
      \A k \in 1..Len(icl.xds) : \A m \in 1..Len(icl.xds) :
        /\ HasMmd(icl.xds[k], "2buy") /\ BuyFollower(k, m) => HasMmd(icl.xds[m], "class2buy")
        /\ HasMmd(icl.xds[k], "2sell") /\ SellFollower(k, m) => HasMmd(icl.xds[m], "class2sell")
        /\ HasMmd(icl.xds[k], "3buy") /\ BuyFollower(k, m) => HasMmd(icl.xds[m], "class3buy")
        /\ HasMmd(icl.xds[k], "3sell") /\ SellFollower(k, m) => HasMmd(icl.xds[m], "class3sell")

\* the names of the quasi markers
QuasiNames == {"class2buy", "class2sell", "class3buy", "class3sell"}

\* C26: no stroke and no segment carries a quasi marker; 2buy and 3buy are on
\* down segments only, 2sell and 3sell on up segments only
C26_NoQuasiMarkers ==
    pc = "returned" =>
      /\ \A k \in 1..Len(icl.bis) : \A name \in QuasiNames : ~HasMmd(icl.bis[k], name)
      /\ \A k \in 1..Len(icl.xds) :
            /\ \A name \in QuasiNames : ~HasMmd(icl.xds[k], name)
            /\ HasMmd(icl.xds[k], "2buy") \/ HasMmd(icl.xds[k], "3buy")
                  => icl.xds[k].type = "down"
            /\ HasMmd(icl.xds[k], "2sell") \/ HasMmd(icl.xds[k], "3sell")
                  => icl.xds[k].type = "up"

\* a returned call with a segment that carries 3buy, a later up segment that
\* passes the buy-side test of the quasi pass against it, and a later down
\* segment that overlaps it with a higher low
C26_Witness ==
    /\ pc = "returned"
    /\ \E k \in 1..Len(icl.xds) :
          /\ HasMmd(icl.xds[k], "3buy")
          /\ \E m \in (k + 1)..Len(icl.xds) :
                icl.xds[m].type = "up" /\ LikeBuy(icl.xds[m], icl.xds[k])
          /\ \E m \in (k + 1)..Len(icl.xds) : BuyFollower(k, m)

----------------------------------------------------------------------------
(* The thresholds of the engine configuration: SpecConfig *)

\* the keyword arguments of EngineConfig with every threshold at least 1:
\* below, at and above the defaults, the options left out or empty
ThresholdArgs ==
    {[options |-> o, bi_min_kline |-> k, xd_min_bi |-> m, zs_min_bi |-> p] :
        o \in {None, << >>},
        k \in {1, DefaultBiMinKline, DefaultBiMinKline + 1},
        m \in {1, DefaultXdMinBi},
        p \in {1, DefaultZsMinBi, DefaultZsMinBi + 1}}

\* nothing is constructed yet; a caller is about to construct an engine from
\* the thresholds and analyse klines
InitConfig ==
    /\ engine = NoEngine
    /\ icl = NoICL
    /\ \E d \in PrefixFrames(MaxKlines) \cup ScenarioFrames(MaxKlines) :
       \E a \in ThresholdArgs : call = [api |-> "analyze_klines", config |-> a, df |-> d]
    /\ pc = "new"
    /\ error = ""
    /\ stages = << >>

NextConfig == ConstructEngine \/ AnalyzeKlines

SpecConfig == InitConfig /\ [][NextConfig]_vars

\* C22: the result of an engine built from EngineConfig(bi_min_kline = k,
\* xd_min_bi = m, zs_min_bi = p) with k, m, p >= 1 has only strokes that span
\* at least k bars, only segments of at least m strokes, and the pivots that
\* groups of p units give on its strokes and on its segments
C22_ThresholdsApplied ==
    (call.api = "analyze_klines" /\ pc = "returned")
      => /\ \A k \in 1..Len(icl.bis) :
               icl.bis[k].end_index - icl.bis[k].start_index >= engine.bi_min_kline
         /\ \A k \in 1..Len(icl.xds) :
               icl.xds[k].end_bi_index - icl.xds[k].start_bi_index + 1 >= engine.xd_min_bi
         /\ icl.bi_zss = _calculate_zs(icl.bis, "bi", engine.zs_min_bi).zss
         /\ icl.xd_zss = _calculate_zs(icl.xds, "xd", engine.zs_min_bi).zss

\* the part of C22 that holds: the thresholds applied are those of the
\* options dict, the defaults where it has none
C22_OptionsApplied ==
    (call.api = "analyze_klines" /\ pc = "returned")
      => /\ icl.bi_min_kline = ConfigGet(engine.options, "bi_min_kline", DefaultBiMinKline)
         /\ icl.xd_min_bi = ConfigGet(engine.options, "xd_min_bi", DefaultXdMinBi)
         /\ icl.zs_min_bi = ConfigGet(engine.options, "zs_min_bi", DefaultZsMinBi)
         /\ \A k \in 1..Len(icl.bis) :
               icl.bis[k].end_index - icl.bis[k].start_index >= icl.bi_min_kline

----------------------------------------------------------------------------
(* The index of every entity: SpecTotal *)

\* every element of list has its 0-based position as index
IndexIsPosition(list) == \A k \in 1..Len(list) : list[k].index = k - 1

\* C24: in the stroke list, the segment list and both pivot lists every
\* entity's index is its position in the list, counted from 0, so the
\* indices are strictly increasing in list order
C24_IndexIsPosition ==
    pc = "returned" =>
      /\ IndexIsPosition(icl.bis)
      /\ IndexIsPosition(icl.xds)
      /\ IndexIsPosition(icl.bi_zss)
      /\ IndexIsPosition(icl.xd_zss)

\* a returned call with at least two strokes, segments, stroke pivots and
\* segment pivots, after fractal pairs that gave no stroke
C24_Witness ==
    /\ pc = "returned"
    /\ Len(icl.bis) >= 2
    /\ Len(icl.xds) >= 2
    /\ Len(icl.bi_zss) >= 2
    /\ Len(icl.xd_zss) >= 2
    /\ \E k \in 1..(Len(icl.bis) - 1) : icl.bis[k + 1].start_index # icl.bis[k].end_index

----------------------------------------------------------------------------
(* Segments under a threshold of two strokes or more: SpecRuns *)

\* every stroke and segment threshold with the default pivot threshold
RunConfigs ==
    {Config(b, x, DefaultZsMinBi) : b \in 1..MaxThreshold, x \in 1..MaxThreshold}

\* the level sequences of SpecBi, where fractal pairs are too short for a
\* stroke, under RunConfigs, and the rising zigzag under every threshold triple
InitRuns ==
    \/ InitProcess(RunConfigs, BiFrames(BiLevels(TwoUpLevels)))
    \/ InitProcess(TotalConfigs, PerturbedFrames(RisingLevels))

SpecRuns == InitRuns /\ [][NextICL]_vars

\* C25: with xd_min_bi >= 2 the segment list is empty, and so is the list
\* of segment-level pivots (no segment, so no segment flag and no second-type,
\* third-type or quasi marker); under every threshold a run of strokes of one
\* direction has length 1
C25_NoSegmentsFromTwo ==
    pc = "returned" =>
      /\ icl.xd_min_bi >= 2 => icl.xds = << >> /\ icl.xd_zss = << >>
      /\ \A i \in 0..(Len(icl.bis) - 1) : XdRunEnd(icl.bis, icl.bis[i + 1].type, i + 1) = i + 1
      /\ \A k \in 1..Len(icl.xds) : icl.xds[k].start_bi_index = icl.xds[k].end_bi_index

\* a returned call with xd_min_bi >= 2, no fewer strokes than xd_min_bi and
\* a stroke-level pivot
C25_Witness ==
    /\ pc = "returned"
    /\ icl.xd_min_bi >= 2
    /\ Len(icl.bis) >= icl.xd_min_bi
    /\ icl.bi_zss # << >>
    /\ icl.xds = << >>

----------------------------------------------------------------------------
(* The extension of a pivot: SpecExtend *)

\* strokes 0 to 4, 4 to 1 and 1 to 2, then apart from them a stroke 4 to 3
\* and, apart again, a stroke 5 to 6
StrayMemberLevels == <<1, 0, 4, 1, 2, 1, 1, 4, 3, 6, 6, 5, 6, 5>>

\* the frames of SpecClass3 and the scenario above with its variations in
\* one bar, under every pivot threshold
InitExtend ==
    \/ InitClass3
    \/ InitProcess(Class3Configs, PerturbedFrames(StrayMemberLevels))

SpecExtend == InitExtend /\ [][NextICL]_vars

\* the low of the unit's directional range: the start of an up unit, the end
\* of a down unit
DirLow(u) == IF u.type = "up" THEN u.start_price ELSE u.end_price

\* the high of the unit's directional range
DirHigh(u) == IF u.type = "up" THEN u.end_price ELSE u.start_price

\* the unit's directional range meets [zd, zg]
MeetsRange(u, zg, zd) == DirLow(u) <= zg /\ DirHigh(u) >= zd

\* the members past the first min_units of zs meet [zd, zg], and the unit
\* after the last member, if there is one, does not
ExtendedOver(units, zs, min_units, zg, zd) ==
    LET members == MemberSet(units, zs)
        first == Least(members)
        last == Greatest(members)
    IN  /\ \A k \in members : k >= first + min_units => MeetsRange(units[k], zg, zd)
        /\ last < Len(units) => ~MeetsRange(units[last + 1], zg, zd)

\* the least range-high of the first min_units members of zs
GroupZg(units, zs, min_units) ==
    LET first == Least(MemberSet(units, zs))
    IN  Least({DirHigh(units[k]) : k \in first..(first + min_units - 1)})

\* the greatest range-low of the first min_units members of zs
GroupZd(units, zs, min_units) ==
    LET first == Least(MemberSet(units, zs))
    IN  Greatest({DirLow(units[k]) : k \in first..(first + min_units - 1)})

\* C27 as stated: for every pivot and every min_units >= 1 the members
\* beyond the defining group meet the reported range [zd, zg] of the pivot and
\* the unit after the last member does not
C27_ExtendedOverReported ==
    pc = "returned" =>
      /\ \A k \in 1..Len(icl.bi_zss) :
            ExtendedOver(icl.bis, icl.bi_zss[k], icl.zs_min_bi,
                         icl.bi_zss[k].zg, icl.bi_zss[k].zd)
      /\ \A k \in 1..Len(icl.xd_zss) :
            ExtendedOver(icl.xds, icl.xd_zss[k], icl.zs_min_bi,
                         icl.xd_zss[k].zg, icl.xd_zss[k].zd)

\* C27, amended: for every pivot and every min_units >= 1 the members beyond
\* the defining group meet the range of the defining group (the least high
\* and the greatest low of the first min_units members) and the unit after
\* the last member does not; for min_units = 3 that range is the reported one
C27_ExtendedOverGroup ==
    pc = "returned" =>
      /\ \A k \in 1..Len(icl.bi_zss) :
            /\ ExtendedOver(icl.bis, icl.bi_zss[k], icl.zs_min_bi,
                            GroupZg(icl.bis, icl.bi_zss[k], icl.zs_min_bi),
                            GroupZd(icl.bis, icl.bi_zss[k], icl.zs_min_bi))
            /\ icl.zs_min_bi = ZsDefiningCount
                 => ExtendedOver(icl.bis, icl.bi_zss[k], icl.zs_min_bi,
                                 icl.bi_zss[k].zg, icl.bi_zss[k].zd)
      /\ \A k \in 1..Len(icl.xd_zss) :
            /\ ExtendedOver(icl.xds, icl.xd_zss[k], icl.zs_min_bi,
                            GroupZg(icl.xds, icl.xd_zss[k], icl.zs_min_bi),
                            GroupZd(icl.xds, icl.xd_zss[k], icl.zs_min_bi))
            /\ icl.zs_min_bi = ZsDefiningCount
                 => ExtendedOver(icl.xds, icl.xd_zss[k], icl.zs_min_bi,
                                 icl.xd_zss[k].zg, icl.xd_zss[k].zd)

\* a stroke pivot built with min_units below 3 that has a member past its
\* defining group which meets the range of the group and not the reported
\* range, and a stroke pivot with a unit after its last member
C27_Witness ==
    /\ pc = "returned"
    /\ icl.zs_min_bi < ZsDefiningCount
    /\ \E k \in 1..Len(icl.bi_zss) :
          LET zs == icl.bi_zss[k]
              members == MemberSet(icl.bis, zs)
          IN  \E m \in members :
                 /\ m >= Least(members) + icl.zs_min_bi
                 /\ MeetsRange(icl.bis[m], GroupZg(icl.bis, zs, icl.zs_min_bi),
                               GroupZd(icl.bis, zs, icl.zs_min_bi))
                 /\ ~MeetsRange(icl.bis[m], zs.zg, zs.zd)
    /\ \E k \in 1..Len(icl.bi_zss) :
          Greatest(MemberSet(icl.bis, icl.bi_zss[k])) < Len(icl.bis)

----------------------------------------------------------------------------
(* The related pivot of a divergence flag: SpecBc *)

\* the bar times of the frame
BarTimes == {call.df.rows[k].date : k \in 1..Len(call.df.rows)}

\* the positions (1-based) of the pivots whose closed time range has an
\* instant in common with that of unit
Intersecting(unit, zss) ==
    {p \in 1..Len(zss) :
        \E t \in BarTimes :
            /\ unit.start_time <= t /\ t <= unit.end_time
            /\ zss[p].start_time <= t /\ t <= zss[p].end_time}

\* every flag of every unit refers to the intersecting pivot of the lowest
\* index, and to none if no pivot intersects the unit
FlagsRelated(units, zss) ==
    \A i \in 1..Len(units) : \A f \in 1..Len(units[i].bcs) :
        LET hits == Intersecting(units[i], zss)
            related == units[i].bcs[f].zs
        IN  /\ related = << >> <=> hits = {}
            /\ hits # {} =>
                  /\ related[1] = zss[Least(hits)].index
                  /\ \A p \in hits : zss[p].index >= related[1]

\* C28: the related pivot of a DivergenceFlag is the pivot of the lowest
\* index, of the unit's level, whose closed time range intersects that of the
\* flagged unit, and it is none exactly when no pivot of the level does
C28_FlagRelatedPivot ==
    pc = "returned" =>
      FlagsRelated(icl.bis, icl.bi_zss) /\ FlagsRelated(icl.xds, icl.xd_zss)

\* a returned call with a flagged stroke that two pivots intersect, its
\* flag referring to the one of the lower index
C28_Witness ==
    /\ pc = "returned"
    /\ \E i \in 1..Len(icl.bis) :
          /\ icl.bis[i].bcs # << >>
          /\ Cardinality(Intersecting(icl.bis[i], icl.bi_zss)) >= 2
          /\ icl.bis[i].bcs[1].zs = <<Least(Intersecting(icl.bis[i], icl.bi_zss)) - 1>>

----------------------------------------------------------------------------
(* Repeated calls on one object: SpecFields *)

\* the four lists the getters get_bis, get_xds, get_bi_zss and get_xd_zss
\* return
GetterLists(self) == <<self.bis, self.xds, self.bi_zss, self.xd_zss>>

\* a call of process_klines on the caller's object has ended
CallEnded == call.api = "process_klines" /\ pc \in {"returned", "raised"}

\* C29: after every call of process_klines on one object, an empty frame
\* included, the four getters return what they return on a fresh object of
\* the same config that was given the frame of the last call only
C29_LastInputAlone ==
    CallEnded =>
      GetterLists(icl) = GetterLists(process_klines(SimpleICL(call.config), call.df).icl)

\* the part of C29 that holds: a call that returned on a frame with bars
\* leaves the lists of a fresh object given that frame
C29_LastInputAloneWithBars ==
    (CallEnded /\ pc = "returned" /\ call.df.rows # << >>) =>
      GetterLists(icl) = GetterLists(process_klines(SimpleICL(call.config), call.df).icl)

\* a call on a frame with bars has returned strokes
C29_WitnessWithBars ==
    /\ CallEnded
    /\ pc = "returned"
    /\ call.df.rows # << >>
    /\ icl.bis # << >>

----------------------------------------------------------------------------
(* The direction of a stroke and its prices: SpecClass3 *)

\* every bar of the frame passed has its high at or above its low
BarsWellFormed ==
    \A i \in 1..Len(call.df.rows) : call.df.rows[i].high >= call.df.rows[i].low

\* C30: on bars with high >= low every up stroke ends above its start and
\* every down stroke below it, so the high of a stroke is at least its low
\* and the directional range of the pivot detector is well-formed
C30_StrokesWellFormed ==
    (pc = "returned" /\ BarsWellFormed) =>
      \A k \in 1..Len(icl.bis) :
         /\ icl.bis[k].type = "up" => icl.bis[k].end_price > icl.bis[k].start_price
         /\ icl.bis[k].type = "down" => icl.bis[k].end_price < icl.bis[k].start_price
         /\ icl.bis[k].high >= icl.bis[k].low
         /\ DirLow(icl.bis[k]) <= DirHigh(icl.bis[k])

=============================================================================
